---- MODULE Spec2Model ----
(***************************************************************************)
(* DealGauge: the listing store (lib/storage.ts, lib/parse.ts) and the     *)
(* comparable engine (lib/compare.ts) behind the background message        *)
(* handler.                                                                *)
(*                                                                         *)
(* Representation.  A nullable value `T | null` is a sequence of length    *)
(* at most one: None is null, Some(v) is v.  A string whose characters     *)
(* matter (ids, urls, fuel ...) is a sequence of segments, each segment a  *)
(* single character or a run of characters none of which is a digit, '?'   *)
(* or '#'.  A ListingsMap is the sequence of its values in key insertion   *)
(* order (Object.values), with pairwise distinct ids.                      *)
(***************************************************************************)
EXTENDS Integers, Sequences, FiniteSets, TLC

VARIABLES
    listings,   \* the persisted mapping under KEY 'listings_v1'
    now,        \* the wall clock read by nowIso()
    lastOp,     \* the last request the background handled, with its merges
    target,     \* the listing of the last analysis call
    filters,    \* the AnalysisFilters of the last analysis call
    foundComparables, \* the result of findComparables in the last analysis call
    analysis,   \* the Analysis returned by the last analysis call
    inflight,   \* the store mutations the background has begun and not settled
    page,       \* the import page: its pending listings, status and requests
    search      \* the content script's search analyses: cache, request in flight, generation

vars == <<listings, now, lastOp, target, filters, foundComparables, analysis, inflight, page,
          search>>

----------------------------------------------------------------------------
(* Bounds of the model *)

MaxTime == 1        \* the clock runs 0 .. MaxTime
MaxHistory == 2     \* a price_history grows to at most this many entries
MaxStore == 11      \* the analysed mappings hold at most this many listings

----------------------------------------------------------------------------
(* Nullable values *)

None == <<>>
Some(v) == <<v>>
IsNull(o) == o = None
Val(o) == o[1]

\* `a ?? b` on nullable values
Coalesce(a, b) == IF a # None THEN a ELSE b

Abs(x) == IF x < 0 THEN -x ELSE x
Max(a, b) == IF a >= b THEN a ELSE b

SeqRange(s) == {s[i] : i \in 1..Len(s)}

----------------------------------------------------------------------------
(* lib/parse.ts *)

Digits == {"0", "1", "2", "3", "4", "5", "6", "7", "8", "9"}

RECURSIVE CutAt(_, _)
\* the prefix of s before the first segment in stops
CutAt(s, stops) ==
    IF s = <<>> \/ Head(s) \in stops THEN <<>>
    ELSE <<Head(s)>> \o CutAt(Tail(s), stops)

\* origin + pathname of a parsable URL; the catch branch cuts at '#' then '?'
canonicalizeUrl(rawUrl) == CutAt(CutAt(rawUrl, {"#"}), {"?"})

\* toLowerCase of one segment
LowerChar(c) ==
    CASE c = "D" -> "d"
      [] c = "E" -> "e"
      [] c = "E_ACUTE" -> "e_acute"
      [] c = "B" -> "b"
      [] OTHER -> c

\* NFKD decomposition of one segment: "e_acute" is the precomposed U+00E9,
\* "acute_mark" the combining acute U+0301
Nfkd(c) == IF c = "e_acute" THEN <<"e", "acute_mark">> ELSE <<c>>

\* \p{M}
IsMark(c) == c = "acute_mark"

RECURSIVE normalizeChars(_)
normalizeChars(s) ==
    IF s = <<>> THEN <<>>
    ELSE SelectSeq(Nfkd(LowerChar(Head(s))), LAMBDA c : ~IsMark(c))
         \o normalizeChars(Tail(s))

\* normalizeText(text: string | null)
normalizeText(text) == normalizeChars(IF text = None THEN <<>> ELSE Val(text))

\* a plausible slip: the stored value wins over the incoming one
preferCurrent(current, next) == Coalesce(current, next)

\* the `prefer` closure of mergeListing
prefer(current, next) == Coalesce(next, current)

\* a plausible slip: the last entry is compared by its time, not its price
mergeHistoryByTime(existing, incoming) ==
    LET history == existing.price_history IN
    IF incoming.price_eur # None
    THEN IF history = <<>> \/ history[Len(history)].captured_at # incoming.captured_at
         THEN Append(history, [price_eur |-> Val(incoming.price_eur),
                               captured_at |-> incoming.captured_at])
         ELSE history
    ELSE history

\* the price_history of mergeListing(existing, incoming), existing defined
mergeHistoryAlways(existing, incoming) ==
    IF incoming.price_eur # None
    THEN Append(existing.price_history,
                [price_eur |-> Val(incoming.price_eur), captured_at |-> incoming.captured_at])
    ELSE existing.price_history

mergeHistory(existing, incoming) ==
    LET history == existing.price_history IN
    IF incoming.price_eur # None
    THEN IF history = <<>> \/ history[Len(history)].price_eur # Val(incoming.price_eur)
         THEN Append(history, [price_eur |-> Val(incoming.price_eur),
                               captured_at |-> incoming.captured_at])
         ELSE history
    ELSE history

\* a plausible slip: the incoming value replaces the stored one even when null
mergeFieldsErasing(existing, incoming) ==
    [existing EXCEPT
        !.url = IF incoming.url # <<>> THEN incoming.url ELSE existing.url,
        !.title = incoming.title,
        !.price_eur = incoming.price_eur,
        !.price_history = mergeHistory(existing, incoming),
        !.brand = incoming.brand,
        !.model = incoming.model,
        !.trim = incoming.trim,
        !.year = incoming.year,
        !.mileage_km = incoming.mileage_km,
        !.ps = incoming.ps,
        !.erstzulassung = incoming.erstzulassung,
        !.fuel = incoming.fuel,
        !.drivetrain = incoming.drivetrain,
        !.transmission = incoming.transmission,
        !.captured_at = incoming.captured_at,
        !.source = IF incoming.source = "detail" THEN "detail" ELSE existing.source]

\* a plausible slip: the source is the provenance of the latest observation
mergeFieldsDemoting(existing, incoming) ==
    [existing EXCEPT
        !.url = IF incoming.url # <<>> THEN incoming.url ELSE existing.url,
        !.title = prefer(existing.title, incoming.title),
        !.price_eur = prefer(existing.price_eur, incoming.price_eur),
        !.price_history = mergeHistory(existing, incoming),
        !.brand = prefer(existing.brand, incoming.brand),
        !.model = prefer(existing.model, incoming.model),
        !.trim = prefer(existing.trim, incoming.trim),
        !.year = prefer(existing.year, incoming.year),
        !.mileage_km = prefer(existing.mileage_km, incoming.mileage_km),
        !.ps = prefer(existing.ps, incoming.ps),
        !.captured_at = incoming.captured_at,
        !.source = incoming.source]

\* a plausible slip: the history is rebuilt from the incoming observation
mergeFieldsRewriting(existing, incoming) ==
    [existing EXCEPT
        !.url = IF incoming.url # <<>> THEN incoming.url ELSE existing.url,
        !.title = prefer(existing.title, incoming.title),
        !.price_eur = prefer(existing.price_eur, incoming.price_eur),
        !.price_history = IF incoming.price_eur # None
                          THEN incoming.price_history
                          ELSE existing.price_history,
        !.brand = prefer(existing.brand, incoming.brand),
        !.model = prefer(existing.model, incoming.model),
        !.trim = prefer(existing.trim, incoming.trim),
        !.year = prefer(existing.year, incoming.year),
        !.mileage_km = prefer(existing.mileage_km, incoming.mileage_km),
        !.ps = prefer(existing.ps, incoming.ps),
        !.captured_at = incoming.captured_at,
        !.source = IF incoming.source = "detail" THEN "detail" ELSE existing.source]

\* the object literal mergeListing returns when existing is defined:
\* { ...existing, url, title, ..., source }; the fields the literal does not
\* name (id, erstzulassung, fuel, drivetrain, transmission) come from existing
mergeFields(existing, incoming) ==
    [existing EXCEPT
        !.url = IF incoming.url # <<>> THEN incoming.url ELSE existing.url,
        !.title = prefer(existing.title, incoming.title),
        !.price_eur = prefer(existing.price_eur, incoming.price_eur),
        !.price_history = mergeHistory(existing, incoming),
        !.brand = prefer(existing.brand, incoming.brand),
        !.model = prefer(existing.model, incoming.model),
        !.trim = prefer(existing.trim, incoming.trim),
        !.year = prefer(existing.year, incoming.year),
        !.mileage_km = prefer(existing.mileage_km, incoming.mileage_km),
        !.ps = prefer(existing.ps, incoming.ps),
        !.captured_at = incoming.captured_at,
        !.source = IF incoming.source = "detail" THEN "detail" ELSE existing.source]

\* mergeListing(existing: Listing | undefined, incoming); existing is nullable
mergeListing(existing, incoming) ==
    IF existing = None THEN incoming ELSE mergeFields(Val(existing), incoming)

----------------------------------------------------------------------------
(* Numbers.  A JavaScript number that arithmetic produced is a fraction     *)
(* num/den with den >= 0; den = 0 stands for the non-finite results of a    *)
(* division by zero: num > 0 is Infinity, num < 0 is -Infinity, num = 0 is  *)
(* NaN.                                                                     *)

RECURSIVE Gcd(_, _)
Gcd(a, b) == IF b = 0 THEN a ELSE Gcd(b, a % b)

Sign(x) == IF x > 0 THEN 1 ELSE IF x < 0 THEN -1 ELSE 0

\* the fraction n/d in lowest terms, d > 0
Frac(n, d) ==
    LET g == Gcd(Abs(n), Abs(d)) IN
    [num |-> Sign(d) * (n \div g), den |-> Abs(d) \div g]

Whole(n) == [num |-> n, den |-> 1]
IsFinite(x) == x.den # 0

\* sums, differences, products and comparisons of finite numbers, over the
\* least common denominator so that the intermediate integers stay small
Scale(a, b) == b.den \div Gcd(a.den, b.den)
NumAdd(a, b) == Frac(a.num * Scale(a, b) + b.num * Scale(b, a), a.den * Scale(a, b))
NumSub(a, b) == Frac(a.num * Scale(a, b) - b.num * Scale(b, a), a.den * Scale(a, b))
NumLess(a, b) == a.num * Scale(a, b) < b.num * Scale(b, a)
NumMul(a, b) ==
    LET g == Gcd(Abs(a.num), b.den)
        h == Gcd(Abs(b.num), a.den)
    IN Frac((a.num \div g) * (b.num \div h), (a.den \div h) * (b.den \div g))

\* a / b for finite a and b
NumDiv(a, b) ==
    IF b.num = 0 THEN [num |-> Sign(a.num), den |-> 0]
    ELSE NumMul(a, [num |-> Sign(b.num) * b.den, den |-> Abs(b.num)])

----------------------------------------------------------------------------
(* lib/compare.ts *)

MIN_COMPARABLES_FOR_WEIGHTED_ESTIMATE == 10
\* TRIM_PERCENT = 0.1 is 1 / TRIM_PERCENT_INV
TRIM_PERCENT_INV == 10
\* the quantifier of /\d{6,}/g
MIN_ID_DIGITS == 6
\* the mileage tolerance 0.25 is 1 / MILEAGE_LIMIT_INV
MILEAGE_LIMIT_INV == 4
\* the year tolerance
YEAR_LIMIT == 2
\* ranked.slice(0, 5)
TOP_COMPARABLES == 5

\* defaultAnalysisFilters()
defaultAnalysisFilters ==
    [matchFuel |-> FALSE, matchDrivetrain |-> FALSE, matchTransmission |-> FALSE]

RECURSIVE LastDigitRun(_, _, _)
\* the last maximal run of at least MIN_ID_DIGITS digits of s, scanning from
\* the left with the run in progress and the last run found
LastDigitRun(s, run, found) ==
    LET closed == IF Len(run) >= MIN_ID_DIGITS THEN Some(run) ELSE found IN
    IF s = <<>> THEN closed
    ELSE IF Head(s) \in Digits THEN LastDigitRun(Tail(s), Append(run, Head(s)), found)
    ELSE LastDigitRun(Tail(s), <<>>, closed)

\* a plausible slip: the first run instead of the last
RECURSIVE FirstDigitRun(_, _)
FirstDigitRun(s, run) ==
    IF Len(run) >= MIN_ID_DIGITS /\ (s = <<>> \/ Head(s) \notin Digits) THEN Some(run)
    ELSE IF s = <<>> THEN None
    ELSE IF Head(s) \in Digits THEN FirstDigitRun(Tail(s), Append(run, Head(s)))
    ELSE FirstDigitRun(Tail(s), <<>>)

extractNumericListingIdFirst(value) ==
    IF value = <<>> THEN None ELSE FirstDigitRun(value, <<>>)

\* extractNumericListingId(value)
extractNumericListingId(value) ==
    IF value = <<>> THEN None ELSE LastDigitRun(value, <<>>, None)

RECURSIVE InsertKeyed(_, _)
\* the keyed element x put into the sorted sequence s behind every element
\* whose key is not larger
InsertKeyed(s, x) ==
    IF s = <<>> THEN <<x>>
    ELSE IF x.k < Head(s).k THEN <<x>> \o s
    ELSE <<Head(s)>> \o InsertKeyed(Tail(s), x)

RECURSIVE SortKeyed(_)
SortKeyed(s) ==
    IF s = <<>> THEN <<>>
    ELSE InsertKeyed(SortKeyed(SubSeq(s, 1, Len(s) - 1)), s[Len(s)])

\* Array.prototype.sort with a comparator key(a) - key(b), stable and
\* ascending; keys[i] is the key of s[i]
SortBy(s, keys) ==
    LET sorted == SortKeyed([i \in 1..Len(s) |-> [k |-> keys[i], v |-> s[i]]])
    IN [i \in 1..Len(s) |-> sorted[i].v]

\* a plausible slip: the middle of the values as they come, not sorted
medianUnsorted(values) ==
    IF values = <<>> THEN None
    ELSE LET mid == Len(values) \div 2
         IN IF Len(values) % 2 = 0
            THEN Some(Frac(values[mid] + values[mid + 1], 2))
            ELSE Some(Whole(values[mid + 1]))

\* median(values: number[]): number | null
median(values) ==
    IF values = <<>> THEN None
    ELSE LET sorted == SortBy(values, values)
             mid == Len(sorted) \div 2
         IN IF Len(sorted) % 2 = 0
            THEN Some(Frac(sorted[mid] + sorted[mid + 1], 2))
            ELSE Some(Whole(sorted[mid + 1]))

\* a plausible slip: the listings are sorted by price but none is dropped
trimPriceOutliersKeepingAll(ls) ==
    IF Len(ls) < MIN_COMPARABLES_FOR_WEIGHTED_ESTIMATE THEN ls
    ELSE SortBy(ls, [i \in 1..Len(ls) |->
                        IF ls[i].price_eur = None THEN 0 ELSE Val(ls[i].price_eur)])

\* trimPriceOutliers(listings)
trimPriceOutliers(ls) ==
    IF Len(ls) < MIN_COMPARABLES_FOR_WEIGHTED_ESTIMATE THEN ls
    ELSE LET sorted == SortBy(ls, [i \in 1..Len(ls) |->
                                  IF ls[i].price_eur = None THEN 0 ELSE Val(ls[i].price_eur)])
             trimCount == Len(sorted) \div TRIM_PERCENT_INV
             trimmed == SubSeq(sorted, trimCount + 1, Len(sorted) - trimCount)
         IN IF trimCount = 0 THEN sorted
            ELSE IF Len(trimmed) > 0 THEN trimmed ELSE sorted

\* a plausible slip: the year and the mileage are tested for truthiness, as
\* the tolerance rules do, so that a 0 counts as missing
listingDistanceWeightTruthy(t, c) ==
    LET yearDistance == IF ~(t.year = None \/ Val(t.year) = 0) /\ ~(c.year = None \/ Val(c.year) = 0)
                        THEN Abs(Val(t.year) - Val(c.year)) ELSE 2
        mileageDistanceRatio ==
            IF /\ ~(t.mileage_km = None \/ Val(t.mileage_km) = 0)
               /\ ~(c.mileage_km = None \/ Val(c.mileage_km) = 0)
            THEN Frac(Abs(Val(t.mileage_km) - Val(c.mileage_km)), Max(Val(t.mileage_km), 1))
            ELSE Frac(1, 4)
    IN NumDiv(Whole(1), NumAdd(Whole(1 + yearDistance), NumMul(mileageDistanceRatio, Whole(4))))

\* listingDistanceWeight(target, comparable) = 1 / (1 + yearDistance + ratio * 4)
listingDistanceWeight(t, c) ==
    LET yearDistance == IF t.year # None /\ c.year # None
                        THEN Abs(Val(t.year) - Val(c.year)) ELSE 2
        mileageDistanceRatio ==
            IF t.mileage_km # None /\ c.mileage_km # None
            THEN Frac(Abs(Val(t.mileage_km) - Val(c.mileage_km)), Max(Val(t.mileage_km), 1))
            ELSE Frac(1, 4)
    IN NumDiv(Whole(1), NumAdd(Whole(1 + yearDistance), NumMul(mileageDistanceRatio, Whole(4))))

RECURSIVE weightedSums(_, _, _)
\* the for loop of weightedExpectedPrice
weightedSums(t, cs, acc) ==
    IF cs = <<>> THEN acc
    ELSE IF Head(cs).price_eur = None THEN weightedSums(t, Tail(cs), acc)
    ELSE LET weight == listingDistanceWeight(t, Head(cs)) IN
         weightedSums(t, Tail(cs),
             [weightedSum |-> NumAdd(acc.weightedSum, NumMul(Whole(Val(Head(cs).price_eur)), weight)),
              weightTotal |-> NumAdd(acc.weightTotal, weight)])

RECURSIVE Prices(_)
\* comparables.map(price_eur).filter(value !== null)
Prices(cs) ==
    IF cs = <<>> THEN <<>>
    ELSE IF Head(cs).price_eur = None THEN Prices(Tail(cs))
    ELSE <<Val(Head(cs).price_eur)>> \o Prices(Tail(cs))

\* weightedExpectedPrice(target, comparables): number | null
weightedExpectedPrice(t, cs) ==
    IF cs = <<>> THEN None
    ELSE LET r == weightedSums(t, cs, [weightedSum |-> Whole(0), weightTotal |-> Whole(0)]) IN
         IF r.weightTotal.num = 0 THEN median(Prices(cs))
         ELSE Some(NumDiv(r.weightedSum, r.weightTotal))

\* !value for a string | null whose characters matter (a sequence of segments)
Falsy(o) == o = None \/ Val(o) = <<>>
\* !value for a string | null that is only compared as a whole
FalsyStr(o) == o = None \/ Val(o) = ""
\* !value for a number | null
FalsyNum(o) == o = None \/ Val(o) = 0

\* matchesStrictAttribute(targetValue, comparableValue)
matchesStrictAttribute(targetValue, comparableValue) ==
    IF Falsy(targetValue) \/ Falsy(comparableValue) THEN FALSE
    ELSE normalizeText(targetValue) = normalizeText(comparableValue)

\* a plausible slip: the provenance of the comparable is not looked at
matchesActiveFiltersAnySource(t, c, f) ==
    /\ f.matchFuel => matchesStrictAttribute(t.fuel, c.fuel)
    /\ f.matchDrivetrain => matchesStrictAttribute(t.drivetrain, c.drivetrain)
    /\ f.matchTransmission => matchesStrictAttribute(t.transmission, c.transmission)

\* matchesActiveFilters(target, comparable, filters)
matchesActiveFilters(t, c, f) ==
    LET hasTechnicalFilter == f.matchFuel \/ f.matchDrivetrain \/ f.matchTransmission IN
    IF hasTechnicalFilter /\ c.source # "detail" THEN FALSE
    ELSE IF f.matchFuel /\ ~matchesStrictAttribute(t.fuel, c.fuel) THEN FALSE
    ELSE IF f.matchDrivetrain /\ ~matchesStrictAttribute(t.drivetrain, c.drivetrain) THEN FALSE
    ELSE IF f.matchTransmission /\ ~matchesStrictAttribute(t.transmission, c.transmission) THEN FALSE
    ELSE TRUE

\* the numeric identifier of a listing: from its id, else from its url
NumericId(l) == Coalesce(extractNumericListingId(l.id), extractNumericListingId(l.url))

\* the exclusions of the filter callback: the target's own id, its
\* canonical URL, its numeric identifier
SameListing(t, item) ==
    \/ item.id = t.id
    \/ item.url # <<>> /\ t.url # <<>> /\ canonicalizeUrl(item.url) = canonicalizeUrl(t.url)
    \/ NumericId(item) # None /\ NumericId(t) # None /\ NumericId(item) = NumericId(t)

\* a plausible slip: a missing trim on either side matches any trim
IdentityMatchLooseTrim(t, item) ==
    /\ ~(FalsyStr(item.brand) \/ FalsyStr(item.model) \/ FalsyStr(t.brand) \/ FalsyStr(t.model))
    /\ ~(item.brand # t.brand \/ item.model # t.model)
    /\ (item.trim = None \/ t.trim = None \/ item.trim = t.trim)

\* the brand, model and trim tests of the filter callback
IdentityMatch(t, item) ==
    /\ ~(FalsyStr(item.brand) \/ FalsyStr(item.model) \/ FalsyStr(t.brand) \/ FalsyStr(t.model))
    /\ ~(item.brand # t.brand \/ item.model # t.model)
    /\ ~(item.trim # t.trim)

\* the year, mileage and ps tests of the filter callback; an attribute that
\* is null or 0 on either side is skipped (`if (item.year && target.year)`)
WithinTolerance(t, item) ==
    /\ (~FalsyNum(item.year) /\ ~FalsyNum(t.year))
          => ~(Abs(Val(item.year) - Val(t.year)) > YEAR_LIMIT)
    /\ (~FalsyNum(item.mileage_km) /\ ~FalsyNum(t.mileage_km))
          => ~(MILEAGE_LIMIT_INV * Abs(Val(item.mileage_km) - Val(t.mileage_km))
                 > Val(t.mileage_km))
    /\ (~FalsyNum(item.ps) /\ ~FalsyNum(t.ps)) => ~(Val(item.ps) # Val(t.ps))

\* the callback of the filter in findComparables
Qualifies(t, item, activeFilters) ==
    /\ ~SameListing(t, item)
    /\ IdentityMatch(t, item)
    /\ matchesActiveFilters(t, item, activeFilters)
    /\ WithinTolerance(t, item)
    /\ item.price_eur # None

\* findComparables(target, listings, filters?); filters is nullable
findComparables(t, map, f) ==
    LET activeFilters == IF f = None THEN defaultAnalysisFilters ELSE Val(f) IN
    SelectSeq(map, LAMBDA item : Qualifies(t, item, activeFilters))

\* the value the comparator of `ranked` orders by, times 1000:
\* yearDiff * 2 + mileageDiff / 1000 + psDiff / 10
RankScore(t, a) ==
    LET yearDiff == IF ~FalsyNum(t.year) /\ ~FalsyNum(a.year)
                    THEN Abs(Val(t.year) - Val(a.year)) ELSE 10
        mileageDiff == IF ~FalsyNum(t.mileage_km) /\ ~FalsyNum(a.mileage_km)
                       THEN Abs(Val(t.mileage_km) - Val(a.mileage_km)) ELSE 999999
        psDiff == IF ~FalsyNum(t.ps) /\ ~FalsyNum(a.ps) THEN Abs(Val(t.ps) - Val(a.ps)) ELSE 200
    IN 2000 * yearDiff + mileageDiff + 100 * psDiff

\* a plausible slip: the comparable count is left out of the gate
InsufficientIgnoringCount(sparseData, expected, price) == expected = None \/ price = None

\* notEnough = sparseData || expected === null || target.price_eur === null
Insufficient(sparseData, expected, price) == sparseData \/ expected = None \/ price = None

\* a plausible slip: the difference is taken the other way round
PriceDiffReversed(expected, targetPrice) == NumSub(Whole(targetPrice), expected)

\* diff = expected - targetPrice
PriceDiff(expected, targetPrice) == NumSub(expected, Whole(targetPrice))

\* analyzeListing(target, listings, filters?)
analyzeListing(t, map, f) ==
    LET appliedFilters == IF f = None THEN defaultAnalysisFilters ELSE Val(f)
        comparables == findComparables(t, map, Some(appliedFilters))
        pricedComparables == SelectSeq(comparables, LAMBDA item : item.price_eur # None)
        prices == Prices(pricedComparables)
        sparseData == Len(comparables) < MIN_COMPARABLES_FOR_WEIGHTED_ESTIMATE
        estimateBase == IF sparseData THEN pricedComparables
                        ELSE trimPriceOutliers(pricedComparables)
        expected == IF sparseData THEN median(prices) ELSE weightedExpectedPrice(t, estimateBase)
        ranked == SortBy(comparables, [i \in 1..Len(comparables) |-> RankScore(t, comparables[i])])
        notEnough == Insufficient(sparseData, expected, t.price_eur)
        diff == PriceDiff(Val(expected), Val(t.price_eur))
        diffPct == NumDiv(diff, Val(expected))
        top == SubSeq(ranked, 1, IF Len(ranked) < TOP_COMPARABLES THEN Len(ranked)
                                 ELSE TOP_COMPARABLES)
    IN IF notEnough
       THEN [expected_price |-> expected, diff_eur |-> None, diff_pct |-> None,
             deal_score |-> None, comparables_count |-> Len(comparables),
             comparables |-> top, not_enough_data |-> TRUE,
             applied_filters |-> appliedFilters]
       ELSE [expected_price |-> expected, diff_eur |-> Some(diff), diff_pct |-> Some(diffPct),
             deal_score |-> Some(diffPct), comparables_count |-> Len(comparables),
             comparables |-> top, not_enough_data |-> FALSE,
             applied_filters |-> appliedFilters]

----------------------------------------------------------------------------
(* lib/storage.ts *)

\* the position of the key id in the mapping, 0 when absent
IndexOf(map, id) ==
    IF \E i \in 1..Len(map) : map[i].id = id
    THEN CHOOSE i \in 1..Len(map) : map[i].id = id
    ELSE 0

\* listings[id], undefined as None
Lookup(map, id) ==
    LET i == IndexOf(map, id) IN IF i = 0 THEN None ELSE Some(map[i])

\* listings[id] = merged: an existing key keeps its position, a new key is last
Assign(map, item) ==
    LET i == IndexOf(map, item.id) IN
    IF i = 0 THEN Append(map, item) ELSE [map EXCEPT ![i] = item]

\* delete listings[id]
Remove(map, id) == SelectSeq(map, LAMBDA l : l.id # id)

RECURSIVE upsertLoop(_, _)
\* the for loop of upsertListings: the working mapping and the merges it made
upsertLoop(acc, incoming) ==
    IF incoming = <<>> THEN acc
    ELSE LET item == Head(incoming)
             existing == Lookup(acc.listings, item.id)
             merged == mergeListing(existing, item)
             differs == existing = None \/ Val(existing) # merged
         IN upsertLoop(
                [listings |-> IF differs THEN Assign(acc.listings, merged) ELSE acc.listings,
                 changed |-> acc.changed \/ differs,
                 merges |-> Append(acc.merges,
                                   [existing |-> existing, incoming |-> item, merged |-> merged])],
                Tail(incoming))

\* a plausible slip: the mapping is saved whether or not an item changed
upsertListingsAlwaysSaving(map, incoming) ==
    [upsertLoop([listings |-> map, changed |-> FALSE, merges |-> <<>>], incoming)
        EXCEPT !.changed = TRUE]

\* upsertListings(incoming) run on the mapping loaded from the store
upsertListings(map, incoming) ==
    upsertLoop([listings |-> map, changed |-> FALSE, merges |-> <<>>], incoming)

\* clearAllListings: browser.storage.local.remove(KEY); loadListings then yields {}
clearAllListings(map) == <<>>

\* deleteListing(id) run on the loaded mapping
deleteListing(map, id) ==
    IF Lookup(map, id) = None
    THEN [listings |-> map, removed |-> FALSE]
    ELSE [listings |-> Remove(map, id), removed |-> TRUE]

\* a captured_at is the day of the capture, as nowIso() wrote it, or
\* Unparseable: a string Date.parse does not read ('' included)
Unparseable == -1

\* Date.parse(listing.captured_at ?? ''), in days; None is NaN
DateParse(c) == IF c = Unparseable THEN None ELSE Some(Whole(c))

\* a plausible slip: a listing captured exactly at the threshold is pruned too
pruneListingsOlderThanInclusive(map, days, t) ==
    IF ~IsFinite(days) \/ days.num <= 0
    THEN [listings |-> map, removed |-> 0, read |-> FALSE]
    ELSE LET threshold == NumSub(Whole(t), days)
             kept == SelectSeq(map, LAMBDA l :
                        ~(/\ DateParse(l.captured_at) # None
                          /\ ~NumLess(threshold, Val(DateParse(l.captured_at)))))
         IN [listings |-> kept, removed |-> Len(map) - Len(kept), read |-> TRUE]

\* pruneListingsOlderThan(days) run at time t on the mapping it loads; days is
\* any number, the clock counts days (24 * 60 * 60 * 1000 ms), and read tells
\* whether loadListings was called
pruneListingsOlderThan(map, days, t) ==
    IF ~IsFinite(days) \/ days.num <= 0
    THEN [listings |-> map, removed |-> 0, read |-> FALSE]
    ELSE LET threshold == NumSub(Whole(t), days)
             kept == SelectSeq(map, LAMBDA l :
                        ~(/\ DateParse(l.captured_at) # None
                          /\ NumLess(Val(DateParse(l.captured_at)), threshold)))
         IN [listings |-> kept, removed |-> Len(map) - Len(kept), read |-> TRUE]

----------------------------------------------------------------------------
(* entrypoints/content.ts: the listings a capture builds *)

U1 == <<"https://w.at/iad/d/a-", "1", "2", "3", "4", "5", "6">>
U2 == <<"https://w.at/iad/d/b-", "6", "5", "4", "3", "2", "1">>

CaptureUrls == {U1, U2}
Variants == {1, 2}
Shapes == {"full", "bare", "price"}

NullableFields ==
    {"title", "price_eur", "brand", "model", "trim", "year", "mileage_km", "ps",
     "erstzulassung", "fuel", "drivetrain", "transmission"}

\* what the page shows in variant v
PagePrice(v) == IF v = 1 THEN 20000 ELSE 19000
PageFuel(v) == IF v = 1 THEN <<"D", "i", "e", "s", "e", "l">> ELSE <<"b", "e", "n", "z", "i", "n">>

\* the object literal of buildDetailListing (src = "detail") and of
\* extractSearchListings (src = "search"): id and url are the canonical URL,
\* the history holds the page's price if it has one; a "bare" page yields no
\* attribute, a "price" page the price only
Capture(u, src, shape, v, t) ==
    LET url == canonicalizeUrl(u)
        price == IF shape = "bare" THEN None ELSE Some(PagePrice(v))
        attr(x) == IF shape = "full" THEN Some(x) ELSE None
    IN [id |-> url,
        url |-> url,
        title |-> attr(IF v = 1 THEN "Skoda Octavia 2.0 TDI" ELSE "Skoda Octavia Combi"),
        price_eur |-> price,
        price_history |-> IF price # None
                          THEN <<[price_eur |-> Val(price), captured_at |-> t]>>
                          ELSE <<>>,
        brand |-> attr("skoda"),
        model |-> attr("octavia"),
        trim |-> attr(IF v = 1 THEN "standard" ELSE "rs"),
        year |-> attr(2018 + v),
        mileage_km |-> attr(50000 * v),
        ps |-> attr(100 + 50 * v),
        erstzulassung |-> IF src = "detail" THEN attr(IF v = 1 THEN "03/2019" ELSE "07/2020")
                          ELSE None,
        fuel |-> attr(PageFuel(v)),
        drivetrain |-> attr(IF v = 1 THEN <<"V", "o", "r", "d", "e", "r", "r", "a", "d">>
                            ELSE <<"A", "l", "l", "r", "a", "d">>),
        transmission |-> attr(IF v = 1 THEN <<"S", "c", "h", "a", "l", "t">>
                              ELSE <<"A", "u", "t", "o">>),
        captured_at |-> t,
        source |-> src]

\* the payloads of capture(): the detail listing alone, or the search listings,
\* one per distinct canonical URL; the page of U2 shows no attribute
Payloads(t) ==
    {<<Capture(U1, src, s, v, t)>> : src \in {"detail", "search"}, s \in Shapes, v \in Variants}
    \cup {<<Capture(U2, "search", "bare", 1, t)>>}
    \cup {<<Capture(U1, "search", s, v, t), Capture(U2, "search", "bare", 1, t)>> :
             s \in Shapes, v \in Variants}

----------------------------------------------------------------------------
(* entrypoints/background.ts: the message listener, one action per message *)

NoOp == [type |-> "none", merges |-> <<>>, removed |-> 0, wrote |-> FALSE]

\* a status line of the import page: its text around the number it shows
Status(text, count) == [text |-> text, count |-> count]

\* the import page as its script leaves it: no file chosen, nothing pending,
\* no import running, the greeting shown, no request sent
NoPage ==
    [fileName |-> "", pendingImportListings |-> <<>>, isImporting |-> FALSE,
     status |-> Status("Bereit. Bitte eine JSON-Datei auswaehlen.", 0),
     sent |-> <<>>]

\* the content script as it starts: searchAnalysisCache = null,
\* searchAnalysisInFlight = null, searchAnalysisGeneration = 0; `requests` are
\* the analyze_listings requests it has sent and `returned` is what the last
\* call of getSearchAnalyses returned
NoSearch ==
    [cache |-> <<>>, inFlight |-> <<>>, generation |-> 0, requests |-> <<>>,
     returned |-> <<>>]

Init ==
    /\ listings = <<>>
    /\ now = 0
    /\ lastOp = NoOp
    /\ target = None
    /\ filters = None
    /\ foundComparables = <<>>
    /\ analysis = None
    /\ inflight = <<>>
    /\ page = NoPage
    /\ search = NoSearch

\* message.type === 'upsert_listings'; saveListings runs only if changed, and
\* lastOp.wrote tells whether it ran
OnUpsertListings ==
    \E incoming \in Payloads(now) :
        LET r == upsertListings(listings, incoming) IN
        /\ \A i \in 1..Len(r.listings) : Len(r.listings[i].price_history) <= MaxHistory
        /\ listings' = IF r.changed THEN r.listings ELSE listings
        /\ lastOp' = [type |-> "upsert_listings", merges |-> r.merges, removed |-> 0,
                      wrote |-> r.changed]
        /\ UNCHANGED <<now, target, filters, foundComparables, analysis, inflight, page, search>>

\* message.type === 'delete_listing'
OnDeleteListing ==
    \E u \in CaptureUrls :
        LET r == deleteListing(listings, u) IN
        /\ listings' = r.listings
        /\ lastOp' = [type |-> "delete_listing", merges |-> <<>>,
                      removed |-> IF r.removed THEN 1 ELSE 0, wrote |-> r.removed]
        /\ UNCHANGED <<now, target, filters, foundComparables, analysis, inflight, page, search>>

\* message.type === 'prune_older_than'
OnPruneOlderThan ==
    \E days \in 0..MaxTime :
        LET r == pruneListingsOlderThan(listings, Whole(days), now) IN
        /\ listings' = r.listings
        /\ lastOp' = [type |-> "prune_older_than", merges |-> <<>>, removed |-> r.removed,
                      wrote |-> r.removed > 0]
        /\ UNCHANGED <<now, target, filters, foundComparables, analysis, inflight, page, search>>

\* message.type === 'clear_all'
OnClearAll ==
    /\ listings' = clearAllListings(listings)
    /\ lastOp' = [type |-> "clear_all", merges |-> <<>>, removed |-> 0, wrote |-> TRUE]
    /\ UNCHANGED <<now, target, filters, foundComparables, analysis, inflight, page, search>>

\* time passes between two requests
Tick ==
    /\ now < MaxTime
    /\ now' = now + 1
    /\ UNCHANGED <<listings, lastOp, target, filters, foundComparables, analysis, inflight, page, search>>

Next ==
    \/ OnUpsertListings
    \/ OnDeleteListing
    \/ OnPruneOlderThan
    \/ OnClearAll
    \/ Tick

Spec == Init /\ [][Next]_vars

----------------------------------------------------------------------------
(* Properties of the store *)

\* the merges of the last upsert that met an existing record
Merged == {m \in SeqRange(lastOp.merges) : m.existing # None}

IsPrefix(s, t) == Len(s) <= Len(t) /\ \A i \in 1..Len(s) : s[i] = t[i]

\* C1 (merge non-erasure): in every merge of an incoming observation into an
\* existing record, each nullable field that the existing record has and the
\* incoming observation lacks keeps the existing value; and no request
\* 'upsert_listings' turns a stored non-null field of a record into null.
C1_MergeNonErasure ==
    /\ [](\A m \in Merged : \A F \in NullableFields :
            (Val(m.existing)[F] # None /\ m.incoming[F] = None)
                => m.merged[F] = Val(m.existing)[F])
    /\ [][lastOp'.type = "upsert_listings" =>
            \A i \in 1..Len(listings) : \A F \in NullableFields :
                listings[i][F] # None =>
                    /\ Lookup(listings', listings[i].id) # None
                    /\ Val(Lookup(listings', listings[i].id))[F] # None]_vars

\* C1 witness: a record with every nullable field set has met an observation
\* with every nullable field null, and the merged record is the stored one
C1_Witness ==
    \E m \in Merged :
        /\ \A F \in NullableFields : Val(m.existing)[F] # None /\ m.incoming[F] = None
        /\ Lookup(listings, m.incoming.id) = Some(m.merged)

\* C2 (detail stickiness): merging any observation into a record of source
\* "detail" yields source "detail"; and a stored record of source "detail"
\* keeps that source over every request for as long as it stays in the store.
C2_DetailStickiness ==
    /\ [](\A m \in Merged : Val(m.existing).source = "detail" => m.merged.source = "detail")
    /\ [][\A i \in 1..Len(listings) :
            (listings[i].source = "detail" /\ Lookup(listings', listings[i].id) # None)
                => Val(Lookup(listings', listings[i].id)).source = "detail"]_vars

\* C2 witness: a search-page observation was merged into a stored detail record
C2_Witness ==
    \E m \in Merged :
        /\ Val(m.existing).source = "detail"
        /\ m.incoming.source = "search"
        /\ Lookup(listings, m.incoming.id) = Some(m.merged)

\* C3 (history monotonicity): the merged price_history extends the existing
\* one as a prefix by at most one entry, and the entry (the incoming price at
\* the incoming time) is appended exactly when the incoming price is non-null
\* and differs from the last recorded price or there is no recorded price.
C3_HistoryMonotonicity ==
    \A m \in Merged :
        LET A == Val(m.existing).price_history
            R == m.merged.price_history
            due == /\ m.incoming.price_eur # None
                   /\ (A = <<>> \/ A[Len(A)].price_eur # Val(m.incoming.price_eur))
        IN /\ IsPrefix(A, R)
           /\ Len(R) <= Len(A) + 1
           /\ (Len(R) = Len(A) + 1) <=> due
           /\ due => R[Len(R)] = [price_eur |-> Val(m.incoming.price_eur),
                                  captured_at |-> m.incoming.captured_at]

\* C3 witness: a changed price was appended to a non-empty history
C3_Witness ==
    \E m \in Merged :
        /\ Val(m.existing).price_history # <<>>
        /\ Len(m.merged.price_history) = Len(Val(m.existing).price_history) + 1

\* C4 (merge idempotence): merging the same observation a second time into
\* the result of a merge changes no field of it, price_history included.
C4_MergeIdempotence ==
    \A m \in Merged : mergeListing(Some(m.merged), m.incoming) = m.merged

\* C4 witness: a merge that changed the record and appended a new price
C4_Witness ==
    \E m \in Merged :
        /\ m.merged # Val(m.existing)
        /\ m.merged # m.incoming
        /\ Len(m.merged.price_history) = Len(Val(m.existing).price_history) + 1

\* C20 (price_history has distinct consecutive values): after any sequence of
\* upserts from an empty store, no stored record has two adjacent
\* price_history entries with the same price_eur.
C20_DistinctConsecutivePrices ==
    \A i \in 1..Len(listings) :
        LET history == listings[i].price_history IN
        \A k \in 1..(Len(history) - 1) : history[k].price_eur # history[k + 1].price_eur

\* C20 witness: a record with two recorded prices was observed again at its
\* last recorded price, and the stored history did not grow
C20_Witness ==
    \E m \in Merged :
        LET A == Val(m.existing).price_history IN
        /\ Len(A) >= 2
        /\ m.incoming.price_eur = Some(A[Len(A)].price_eur)
        /\ Lookup(listings, m.incoming.id) = Some(m.merged)
        /\ m.merged.price_history = A

\* C24 (stored price agrees with history): after any sequence of upserts of
\* capture-built listings, every stored record with a non-null price_eur has
\* a non-empty price_history whose last entry has that price.
C24_PriceAgreesWithHistory ==
    \A i \in 1..Len(listings) :
        LET l == listings[i] IN
        l.price_eur # None =>
            /\ l.price_history # <<>>
            /\ l.price_history[Len(l.price_history)].price_eur = Val(l.price_eur)

\* C24 witness: a record whose price had changed before was observed without
\* a price, and kept the price its history ends with
C24_Witness ==
    \E m \in Merged :
        /\ Val(m.existing).price_eur # None
        /\ Len(Val(m.existing).price_history) >= 2
        /\ m.incoming.price_eur = None
        /\ Lookup(listings, m.incoming.id) = Some(m.merged)
        /\ m.merged.price_eur = Val(m.existing).price_eur
        /\ m.merged.price_history = Val(m.existing).price_history

\* C13 (upsert writes only on change): an upsert saves the mapping exactly
\* when an incoming item was newly inserted or its merged record differs from
\* the existing record; an upsert that issues no write leaves the persisted
\* mapping as it was.
C13_UpsertWritesOnChange ==
    /\ [](lastOp.type = "upsert_listings" =>
            (lastOp.wrote <=>
                \E m \in SeqRange(lastOp.merges) :
                    m.existing = None \/ Val(m.existing) # m.merged))
    /\ [][(lastOp'.type = "upsert_listings" /\ ~lastOp'.wrote) => listings' = listings]_vars

\* C13 witness: an upsert of two listings that both merged into records equal
\* to the stored ones, and issued no write
C13_Witness ==
    /\ lastOp.type = "upsert_listings"
    /\ Len(lastOp.merges) = 2
    /\ \A m \in SeqRange(lastOp.merges) : m.existing = Some(m.merged)
    /\ ~lastOp.wrote

\* C14 (merge overwrite for every nullable field): in every merge into an
\* existing record, each nullable field the incoming observation supplies
\* (title, price_eur, brand, model, trim, year, mileage_km, ps, and equally
\* fuel, drivetrain, transmission, erstzulassung) holds the incoming value in
\* the merged record.
C14_MergeOverwrite ==
    \A m \in Merged : \A F \in NullableFields :
        m.incoming[F] # None => m.merged[F] = m.incoming[F]

----------------------------------------------------------------------------
(* The comparable engine applied to bounded inputs *)

UQ == U1 \o <<"?", "page=", "2">>
UH == U1 \o <<"#", "photos">>
U3 == <<"https://w.at/iad/d/c-", "1", "2", "3", "4", "5", "6">>
U4 == <<"https://w.at/iad/d/d-", "1", "2", "3", "4", "5">>
U5 == <<"https://w.at/iad/", "7", "6", "5", "4", "3", "2", "1", "/e-", "1", "2", "3", "4", "5", "6">>
U6 == <<"https://w.at/iad/", "1", "2", "3", "4", "5", "6", "/f-", "7", "6", "5", "4", "3", "2", "1">>
UC == <<"https://w.at/iad/d/z-", "7", "7", "7", "7", "7", "7", "7">>

Diesel == <<"D", "i", "e", "s", "e", "l">>
DieselLower == <<"d", "i", "e", "s", "e", "l">>
DieselAccent == <<"D", "i", "e_acute", "s", "e", "l">>
Benzin == <<"B", "e", "n", "z", "i", "n">>
Vorderrad == <<"V", "o", "r", "d", "e", "r", "r", "a", "d">>
Allrad == <<"A", "l", "l", "r", "a", "d">>
Schaltgetriebe == <<"S", "c", "h", "a", "l", "t">>
Automatik == <<"A", "u", "t", "o">>

\* a stored listing with every attribute set
Car(id, url) ==
    [id |-> id, url |-> url, title |-> Some("Skoda Octavia 2.0 TDI"),
     price_eur |-> Some(200),
     price_history |-> <<[price_eur |-> 200, captured_at |-> 0]>>,
     brand |-> Some("skoda"), model |-> Some("octavia"), trim |-> Some("standard"),
     year |-> Some(2020), mileage_km |-> Some(100), ps |-> Some(150),
     erstzulassung |-> Some("03/2020"), fuel |-> Some(Diesel),
     drivetrain |-> Some(Vorderrad), transmission |-> Some(Schaltgetriebe),
     captured_at |-> 0, source |-> "detail"]

AllFilters ==
    {None} \cup {Some(f) : f \in [matchFuel : BOOLEAN, matchDrivetrain : BOOLEAN,
                                  matchTransmission : BOOLEAN]}

\* the mapping holds a listing like the target's car, and the candidate
SetUp(t, item, f) ==
    /\ target = Some(t)
    /\ listings = <<Car(UC, UC), item>>
    /\ filters = f

\* targets and candidates that differ in id and url
IdentityCases ==
    \E tp \in {<<U1, U1>>, <<U1, UQ>>, <<U4, U4>>, <<U4, U1>>, <<U2, U2>>},
       id \in {U1, U2, U3, U4, U5, U6},
       url \in {U1, UQ, UH, U2, U3, U4, U5, U6} :
        SetUp(Car(tp[1], tp[2]), Car(id, url), None)

\* targets and candidates that differ in brand, model, trim and price
ClassCases ==
    \E tc \in {None, Some(""), Some("skoda")} \X {None, Some("octavia")}
              \X {None, Some("standard"), Some("rs")} \X {None, Some(200)},
       ic \in {None, Some(""), Some("skoda"), Some("Skoda"), Some("bmw")}
              \X {None, Some("octavia"), Some("fabia")}
              \X {None, Some("standard"), Some("rs")} \X {None, Some(0), Some(200)} :
        SetUp([Car(U1, U1) EXCEPT !.brand = tc[1], !.model = tc[2], !.trim = tc[3],
                                  !.price_eur = tc[4]],
              [Car(U2, U2) EXCEPT !.brand = ic[1], !.model = ic[2], !.trim = ic[3],
                                  !.price_eur = ic[4]],
              None)

\* targets and candidates that differ in year, mileage and ps
ToleranceCases ==
    \E tc \in {None, Some(2020)} \X {None, Some(0), Some(100)} \X {None, Some(0), Some(150)},
       ic \in {None, Some(2017), Some(2018), Some(2020), Some(2022), Some(2023)}
              \X {None, Some(0), Some(74), Some(75), Some(100), Some(125), Some(126)}
              \X {None, Some(0), Some(150), Some(190)} :
        SetUp([Car(U1, U1) EXCEPT !.year = tc[1], !.mileage_km = tc[2], !.ps = tc[3]],
              [Car(U2, U2) EXCEPT !.year = ic[1], !.mileage_km = ic[2], !.ps = ic[3]],
              None)

\* targets and candidates that differ in fuel, drivetrain, transmission and
\* source, under every choice of filters
StrictCases ==
    \E tc \in {None, Some(<<>>), Some(Diesel), Some(Benzin)} \X {None, Some(Vorderrad)}
              \X {None, Some(Schaltgetriebe)},
       ic \in {None, Some(<<>>), Some(Diesel), Some(DieselLower), Some(DieselAccent),
               Some(Benzin)}
              \X {None, Some(Vorderrad), Some(Allrad)}
              \X {None, Some(Schaltgetriebe), Some(Automatik)}
              \X {"search", "detail"},
       f \in AllFilters :
        SetUp([Car(U1, U1) EXCEPT !.fuel = tc[1], !.drivetrain = tc[2],
                                  !.transmission = tc[3]],
              [Car(U2, U2) EXCEPT !.fuel = ic[1], !.drivetrain = ic[2],
                                  !.transmission = ic[3], !.source = ic[4]],
              f)

InitCompare ==
    /\ IdentityCases \/ ClassCases \/ ToleranceCases \/ StrictCases
    /\ now = 0
    /\ lastOp = NoOp
    /\ foundComparables = <<>>
    /\ analysis = None
    /\ inflight = <<>>
    /\ page = NoPage
    /\ search = NoSearch

\* one call analyzeListing(target, listings, filters), with the comparables
\* its call of findComparables returns
Analyze ==
    /\ target # None
    /\ analysis = None
    /\ foundComparables' = findComparables(Val(target), listings, filters)
    /\ analysis' = Some(analyzeListing(Val(target), listings, filters))
    /\ UNCHANGED <<listings, now, lastOp, target, filters, inflight, page, search>>

NextAnalyze == Analyze

SpecCompare == InitCompare /\ [][NextAnalyze]_vars

\* the decimal digits, as segments
DigitChar == <<"0", "1", "2", "3", "4", "5", "6", "7", "8", "9">>

\* the canonical URL of the i-th listing of a large mapping, i < 100
UrlOf(i) ==
    <<"https://w.at/iad/d/k-", "9", "0", "0", "0", DigitChar[(i \div 10) + 1], DigitChar[(i % 10) + 1]>>

\* the kinds of listings a large mapping is made of: price, year, mileage, ps
\* next to a target of year 2020 and mileage 4; the last kind has no price
Kinds ==
    <<[price_eur |-> Some(100), year |-> Some(2020), mileage_km |-> Some(4), ps |-> Some(150)],
      [price_eur |-> Some(200), year |-> Some(2021), mileage_km |-> Some(5), ps |-> None],
      [price_eur |-> Some(300), year |-> None, mileage_km |-> None, ps |-> Some(150)],
      [price_eur |-> Some(0), year |-> Some(2019), mileage_km |-> Some(3), ps |-> Some(150)],
      [price_eur |-> None, year |-> Some(2020), mileage_km |-> Some(4), ps |-> Some(150)]>>

\* the i-th listing of a large mapping, of kind k
Item(k, i) ==
    [Car(UrlOf(i), UrlOf(i)) EXCEPT
        !.price_eur = Kinds[k].price_eur,
        !.price_history = IF Kinds[k].price_eur = None THEN <<>>
                          ELSE <<[price_eur |-> Val(Kinds[k].price_eur), captured_at |-> 0]>>,
        !.year = Kinds[k].year,
        !.mileage_km = Kinds[k].mileage_km,
        !.ps = Kinds[k].ps]

\* the kind of the i-th listing when the mapping holds c[k] listings of kind k,
\* kind by kind
KindAt(c, i) ==
    CHOOSE k \in 1..Len(c) :
        LET before == IF k = 1 THEN 0 ELSE c[k - 1] IN before < i /\ i <= c[k]

\* the targets of the analyses of a large mapping
AnalyzeTargets ==
    {[Car(U1, U1) EXCEPT !.price_eur = tc[1], !.year = tc[2], !.mileage_km = tc[3]] :
        tc \in {<<Some(150), Some(2020), Some(4)>>,
                <<None, Some(2020), Some(4)>>,
                <<Some(250), None, None>>,
                <<Some(100), Some(2020), Some(0)>>}}

\* mappings of up to MaxStore listings in insertion order, c1 of the first
\* kind, then c2 - c1 of the second, and so on
InitAnalyze ==
    /\ \E c1 \in 0..MaxStore : \E c2 \in c1..MaxStore : \E c3 \in c2..MaxStore :
       \E c4 \in c3..MaxStore : \E c5 \in c4..MaxStore :
          listings = [i \in 1..c5 |-> Item(KindAt(<<c1, c2, c3, c4, c5>>, i), i)]
    /\ target \in {Some(t) : t \in AnalyzeTargets}
    /\ filters = None
    /\ now = 0
    /\ lastOp = NoOp
    /\ foundComparables = <<>>
    /\ analysis = None
    /\ inflight = <<>>
    /\ page = NoPage
    /\ search = NoSearch

SpecAnalyze == InitAnalyze /\ [][NextAnalyze]_vars

----------------------------------------------------------------------------
(* Properties of findComparables *)

\* the analysis call has returned
Analyzed == analysis # None

\* the filters in force: absent filters are the defaults
ActiveFilters == IF filters = None THEN defaultAnalysisFilters ELSE Val(filters)

\* positions i..j of s hold a maximal run of at least six digits
IsLongRun(s, i, j) ==
    /\ 1 <= i /\ i <= j /\ j <= Len(s)
    /\ j - i + 1 >= 6
    /\ \A k \in i..j : s[k] \in Digits
    /\ (i = 1 \/ s[i - 1] \notin Digits)
    /\ (j = Len(s) \/ s[j + 1] \notin Digits)

\* r is the last run of six or more consecutive digits of s
IsLastLongRun(s, r) ==
    \E i, j \in 1..Len(s) :
        /\ IsLongRun(s, i, j)
        /\ r = SubSeq(s, i, j)
        /\ ~\E i2, j2 \in 1..Len(s) : i2 > j /\ IsLongRun(s, i2, j2)

HasLongRun(s) == \E i, j \in 1..Len(s) : IsLongRun(s, i, j)

\* r is the numeric identifier of listing l: taken from its id, else its url
IsNumericIdOf(l, r) ==
    IF HasLongRun(l.id) THEN IsLastLongRun(l.id, r) ELSE IsLastLongRun(l.url, r)

\* the substrings of s
Substrings(s) == {SubSeq(s, i, j) : i \in 1..Len(s), j \in 1..Len(s)}

\* a and b have a numeric identifier, and the same one
SameNumericId(a, b) ==
    \E r \in Substrings(a.id) \cup Substrings(a.url) :
        IsNumericIdOf(a, r) /\ IsNumericIdOf(b, r)

\* C5 (comparable exclusion): no listing returned by findComparables has the
\* target's id, the target's canonicalized URL, or the target's numeric
\* identifier (the last run of six or more digits of the id, else of the url).
C5_ComparableExclusion ==
    Analyzed =>
        \A item \in SeqRange(foundComparables) :
            /\ item.id # Val(target).id
            /\ canonicalizeUrl(item.url) # canonicalizeUrl(Val(target).url)
            /\ ~SameNumericId(item, Val(target))

\* C5 witness: a stored listing with another id and another URL but the
\* target's numeric identifier was left out, while the other listing was returned
C5_Witness ==
    /\ Analyzed
    /\ Len(foundComparables) = 1
    /\ \E item \in SeqRange(listings) :
        /\ item.id # Val(target).id
        /\ canonicalizeUrl(item.url) # canonicalizeUrl(Val(target).url)
        /\ SameNumericId(item, Val(target))
        /\ item \notin SeqRange(foundComparables)

\* C8 (identity rules): every returned listing has a non-null brand and model
\* equal to the target's non-null brand and model, the target's trim (null
\* only with null) and a non-null price; a target without brand or model has
\* no comparables.
C8_IdentityRules ==
    Analyzed =>
        /\ \A item \in SeqRange(foundComparables) :
            /\ item.brand # None /\ item.model # None
            /\ Val(target).brand # None /\ Val(target).model # None
            /\ item.brand = Val(target).brand
            /\ item.model = Val(target).model
            /\ item.trim = Val(target).trim
            /\ item.price_eur # None
        /\ (Val(target).brand = None \/ Val(target).model = None) => foundComparables = <<>>

\* C8 witness: a listing without trim was returned for a target without trim,
\* while the stored listing of trim "standard" was not
C8_Witness ==
    /\ Analyzed
    /\ Val(target).trim = None
    /\ Len(foundComparables) = 1
    /\ foundComparables[1].trim = None
    /\ \E item \in SeqRange(listings) : item.trim = Some("standard")

\* C9 (tolerance rules): every returned listing is within two years of the
\* target when both years are non-null, within a quarter of the target's
\* mileage when both mileages are non-null (0 included), and of equal ps when
\* both ps are non-null.
C9_ToleranceRules ==
    Analyzed =>
        \A item \in SeqRange(foundComparables) :
            LET t == Val(target) IN
            /\ (item.year # None /\ t.year # None)
                  => Abs(Val(item.year) - Val(t.year)) <= 2
            /\ (item.mileage_km # None /\ t.mileage_km # None)
                  => 4 * Abs(Val(item.mileage_km) - Val(t.mileage_km)) <= Val(t.mileage_km)
            /\ (item.ps # None /\ t.ps # None) => Val(item.ps) = Val(t.ps)

\* fuel, drivetrain, transmission and provenance taken away
Scrub(l) ==
    [l EXCEPT !.fuel = None, !.drivetrain = None, !.transmission = None, !.source = "search"]

Ids(ls) == [i \in 1..Len(ls) |-> ls[i].id]

\* the attribute F is non-null on both listings and equal after normalization
StrictlyEqual(a, b, F) ==
    a[F] # None /\ b[F] # None /\ normalizeText(a[F]) = normalizeText(b[F])

\* C10 (strict-attribute filters): with a filter set, every returned listing
\* has source "detail" and, for each set filter, its attribute non-null on
\* both sides and equal after text normalization; with no filter set, the
\* result is the one obtained with fuel, drivetrain, transmission and source
\* taken away from the target and from every listing.
C10_StrictFilters ==
    Analyzed =>
        LET f == ActiveFilters
            t == Val(target)
        IN /\ (f.matchFuel \/ f.matchDrivetrain \/ f.matchTransmission) =>
                \A item \in SeqRange(foundComparables) :
                    /\ item.source = "detail"
                    /\ f.matchFuel => StrictlyEqual(item, t, "fuel")
                    /\ f.matchDrivetrain => StrictlyEqual(item, t, "drivetrain")
                    /\ f.matchTransmission => StrictlyEqual(item, t, "transmission")
           /\ ~(f.matchFuel \/ f.matchDrivetrain \/ f.matchTransmission) =>
                Ids(foundComparables)
                    = Ids(findComparables(Scrub(t), [i \in 1..Len(listings) |-> Scrub(listings[i])],
                                          None))

\* C10 witness: under the fuel filter a detail listing whose fuel is written
\* differently from the target's was returned
C10_Witness ==
    /\ Analyzed
    /\ ActiveFilters.matchFuel
    /\ \E item \in SeqRange(foundComparables) :
        item.fuel # Val(target).fuel /\ item.id # UC

----------------------------------------------------------------------------
(* Properties of analyzeListing *)

\* C6 (sufficiency gate): not_enough_data is true exactly when fewer than 10
\* comparables qualify or the expected price is null or the target has no
\* price; 9 comparables give true, 10 give false for a target with a price;
\* when it is true, diff_eur, diff_pct and deal_score are null, the expected
\* price is still returned if there is a comparable, and so are the first
\* five (or all) comparables.
C6_SufficiencyGate ==
    Analyzed =>
        LET a == Val(analysis)
            n == Len(foundComparables)
            price == Val(target).price_eur
        IN /\ a.comparables_count = n
           /\ a.not_enough_data <=> (n < 10 \/ a.expected_price = None \/ price = None)
           /\ n = 9 => a.not_enough_data
           /\ (n = 10 /\ price # None) => ~a.not_enough_data
           /\ a.not_enough_data =>
                /\ a.diff_eur = None /\ a.diff_pct = None /\ a.deal_score = None
                /\ n >= 1 => a.expected_price # None
                /\ Len(a.comparables) = (IF n < 5 THEN n ELSE 5)
                /\ SeqRange(a.comparables) \subseteq SeqRange(foundComparables)

\* C6 witness: exactly nine comparables for a target with a price: an
\* expected price, but not enough data
C6_Witness ==
    /\ Analyzed
    /\ Len(foundComparables) = 9
    /\ Val(target).price_eur # None
    /\ Val(analysis).expected_price # None
    /\ Val(analysis).not_enough_data

\* the prices of the comparables findComparables returned, in their order
FoundPrices == [i \in 1..Len(foundComparables) |-> Val(foundComparables[i].price_eur)]

\* v is the k-th smallest of the values ps, counted with repetitions
IsKthSmallest(ps, k, v) ==
    /\ v \in SeqRange(ps)
    /\ Cardinality({i \in 1..Len(ps) : ps[i] < v}) < k
    /\ Cardinality({i \in 1..Len(ps) : ps[i] <= v}) >= k

\* C12 (sparse estimate): with fewer than 10 qualifying comparables the
\* expected price is null when there is none, and otherwise the plain median
\* of their prices: the middle value of an odd count, the mean of the two
\* middle values of an even count; five comparables give their median
\* although not_enough_data is true.
C12_SparseEstimate ==
    (Analyzed /\ Len(foundComparables) < 10) =>
        LET n == Len(foundComparables)
            expected == Val(analysis).expected_price
        IN /\ Val(analysis).not_enough_data
           /\ n = 0 => expected = None
           /\ n > 0 =>
                \E lo, hi \in SeqRange(FoundPrices) :
                    /\ IsKthSmallest(FoundPrices, (n + 1) \div 2, lo)
                    /\ IsKthSmallest(FoundPrices, (n \div 2) + 1, hi)
                    /\ expected = Some(Frac(lo + hi, 2))

\* C12 witness: five comparables that are not stored in the order of their
\* prices; the expected price is their median 200, and not_enough_data is true
C12_Witness ==
    /\ Analyzed
    /\ Len(foundComparables) = 5
    /\ \E i, j \in 1..5 : i < j /\ FoundPrices[i] > FoundPrices[j]
    /\ FoundPrices[3] # 200
    /\ Val(analysis).expected_price = Some(Whole(200))
    /\ Val(analysis).not_enough_data
    /\ Val(analysis).diff_eur = None

\* the comparables found, in ascending order of price, without the k first
\* and the k last
FoundTrimmed(k) ==
    LET sorted == SortBy(foundComparables, FoundPrices)
    IN SubSeq(sorted, k + 1, Len(sorted) - k)

\* 1 / (1 + yearDistance + 4 * mileageDistanceRatio) as one fraction: with
\* m = max(target.mileage_km, 1) it is m / ((1 + yearDistance) * m + 4 * d)
ClaimedWeight(t, c) ==
    LET yearDistance == IF t.year = None \/ c.year = None THEN 2
                        ELSE Abs(Val(t.year) - Val(c.year))
    IN IF t.mileage_km = None \/ c.mileage_km = None
       THEN Frac(1, 1 + yearDistance + 1)
       ELSE LET m == Max(Val(t.mileage_km), 1)
                d == Abs(Val(t.mileage_km) - Val(c.mileage_km))
            IN Frac(m, (1 + yearDistance) * m + 4 * d)

RECURSIVE SumOf(_)
\* the sum of a sequence of numbers
SumOf(xs) == IF xs = <<>> THEN Whole(0) ELSE NumAdd(Head(xs), SumOf(Tail(xs)))

ClaimedScore(t, a) ==
    LET yearDiff == IF t.year = None \/ a.year = None THEN 10
                    ELSE Abs(Val(t.year) - Val(a.year))
        mileageDiff == IF t.mileage_km = None \/ a.mileage_km = None THEN 999999
                       ELSE Abs(Val(t.mileage_km) - Val(a.mileage_km))
        psDiff == IF t.ps = None \/ a.ps = None THEN 200 ELSE Abs(Val(t.ps) - Val(a.ps))
    IN 2000 * yearDiff + mileageDiff + 100 * psDiff

\* C23 (ranking for display): analysis.comparables holds min(5,
\* comparables_count) different listings of the full qualifying set, in
\* ascending order of the score, and no qualifying listing left out has a
\* strictly smaller score than one included, whether or not the data suffice.
C23_Ranking ==
    Analyzed =>
        LET top == Val(analysis).comparables
            n == Len(foundComparables)
            t == Val(target)
        IN /\ Val(analysis).comparables_count = n
           /\ Len(top) = IF n < 5 THEN n ELSE 5
           /\ \A i \in 1..Len(top) : top[i] \in SeqRange(foundComparables)
           /\ \A i, j \in 1..Len(top) : i # j => top[i].id # top[j].id
           /\ \A i, j \in 1..Len(top) :
                 i < j => ClaimedScore(t, top[i]) <= ClaimedScore(t, top[j])
           /\ \A c \in SeqRange(foundComparables) \ SeqRange(top) :
                 \A i \in 1..Len(top) : ClaimedScore(t, c) >= ClaimedScore(t, top[i])

\* C25 (deal score is well defined): whenever not_enough_data is false the
\* expected price is non-zero, and diff_pct and deal_score are finite numbers.
C25_DealScoreWellDefined ==
    (Analyzed /\ ~Val(analysis).not_enough_data) =>
        /\ Val(analysis).expected_price # None
        /\ Val(Val(analysis).expected_price).num # 0
        /\ IsFinite(Val(Val(analysis).diff_pct))
        /\ IsFinite(Val(Val(analysis).deal_score))

\* x lies between the smallest and the largest price of the listings ls
WithinPrices(x, ls) ==
    /\ \E c \in SeqRange(ls) : ~NumLess(x, Whole(Val(c.price_eur)))
    /\ \E c \in SeqRange(ls) : ~NumLess(Whole(Val(c.price_eur)), x)

C7_DealScoreSign ==
    (Analyzed /\ ~Val(analysis).not_enough_data) =>
        LET a == Val(analysis)
            expected == Val(a.expected_price)
            price == Whole(Val(Val(target).price_eur))
            score == Val(a.deal_score)
        IN /\ a.deal_score # None
           /\ a.deal_score = a.diff_pct
           /\ IF expected.num # 0
              THEN /\ IsFinite(score)
                   /\ NumMul(score, expected) = NumSub(expected, price)
              ELSE ~IsFinite(score)
           /\ NumLess(price, expected) => NumLess(Whole(0), score)

\* C7 witness: a sufficient analysis whose expected price exceeds the target's
C7_Witness ==
    /\ Analyzed
    /\ ~Val(analysis).not_enough_data
    /\ NumLess(Whole(Val(Val(target).price_eur)), Val(Val(analysis).expected_price))
    /\ NumLess(Whole(0), Val(Val(analysis).deal_score))

----------------------------------------------------------------------------
(* entrypoints/background.ts: the analysis requests of the content script   *)
(* and the popup.  The content script sends its currentAnalysisFilters in   *)
(* the message; `filters` holds the filters of the message, None when the   *)
(* message carries none (the popup).                                        *)

\* getListing(id) run on the loaded mapping
getListing(map, id) == Lookup(map, id)

\* stores of a target, a listing like it, and a candidate that differs in
\* fuel, drivetrain and provenance; the filters the requester has set
InitRequest ==
    /\ \E fuel \in {None, Some(Diesel), Some(DieselLower), Some(Benzin)},
          drivetrain \in {Some(Vorderrad), Some(Allrad)},
          src \in {"search", "detail"},
          f \in AllFilters :
            /\ listings = <<Car(U1, U1), Car(UC, UC),
                            [Car(U2, U2) EXCEPT !.fuel = fuel, !.drivetrain = drivetrain,
                                                !.source = src]>>
            /\ filters = f
    /\ now = 0
    /\ lastOp = NoOp
    /\ target = None
    /\ foundComparables = <<>>
    /\ analysis = None
    /\ inflight = <<>>
    /\ page = NoPage
    /\ search = NoSearch

\* message.type === 'get_analysis': the listener reads message.id only and
\* calls analyzeListing(listing, listings) with two arguments
OnGetAnalysis ==
    \E id \in {U1, U2, U3} :
        LET listing == getListing(listings, id) IN
        /\ target' = listing
        /\ foundComparables' = IF listing = None THEN <<>>
                               ELSE findComparables(Val(listing), listings, None)
        /\ analysis' = IF listing = None THEN None
                       ELSE Some(analyzeListing(Val(listing), listings, None))
        /\ lastOp' = [type |-> "get_analysis", merges |-> <<>>, removed |-> 0,
                      wrote |-> FALSE, id |-> id]
        /\ UNCHANGED <<listings, now, filters, inflight, page, search>>

\* message.type === 'analyze_listings': the listener reads message.listings
\* only and maps each to { id, analysis: analyzeListing(listing, listings) }
OnAnalyzeListings ==
    \E batch \in {<<Car(U1, U1)>>,
                  <<Car(U3, U3), Car(U1, U1)>>,
                  <<[Car(U3, U3) EXCEPT !.fuel = Some(Benzin)]>>} :
        /\ lastOp' = [type |-> "analyze_listings", merges |-> <<>>, removed |-> 0,
                      wrote |-> FALSE, listings |-> batch,
                      analyses |-> [i \in 1..Len(batch) |->
                                        [id |-> batch[i].id,
                                         analysis |-> analyzeListing(batch[i], listings, None)]]]
        /\ target' = None
        /\ foundComparables' = <<>>
        /\ analysis' = None
        /\ UNCHANGED <<listings, now, filters, inflight, page, search>>

NextRequest ==
    \/ OnGetAnalysis
    \/ OnAnalyzeListings

SpecRequest == InitRequest /\ [][NextRequest]_vars

\* C11 (filters reach the engine): the analysis a get_analysis or
\* analyze_listings request with a filters object returns is
\* analyzeListing(target, store, filters) for the filters of the request,
\* and its applied_filters are those filters.
C11_FiltersReachEngine ==
    filters # None =>
        /\ (lastOp.type = "get_analysis" /\ target # None) =>
              /\ analysis = Some(analyzeListing(Val(target), listings, filters))
              /\ Val(analysis).applied_filters = Val(filters)
        /\ lastOp.type = "analyze_listings" =>
              \A i \in 1..Len(lastOp.analyses) :
                  /\ lastOp.analyses[i].analysis
                        = analyzeListing(lastOp.listings[i], listings, filters)
                  /\ lastOp.analyses[i].analysis.applied_filters = Val(filters)

----------------------------------------------------------------------------
(* entrypoints/background.ts and lib/storage.ts: store mutations in flight. *)
(* The listener returns the promise of an async storage function and holds  *)
(* no lock or queue, so a second message is taken up while the first awaits *)
(* browser.storage.local.  A mutation reads the mapping at its `await       *)
(* loadListings()`, computes without yielding, and replaces the mapping at  *)
(* its `await saveListings(listings)`.                                      *)

MaxRequests == 2    \* the mutations received in one run

\* the mapping before the requests: one listing captured two days ago
BaseStore == <<Capture(U2, "search", "price", 1, 0)>>

\* the mutations the pages send at time t
Mutations(t) ==
    {[type |-> "upsert_listings", listings |-> <<Capture(U1, "detail", "full", 1, t)>>,
      id |-> <<>>, days |-> 0],
     [type |-> "upsert_listings", listings |-> <<Capture(U2, "search", "price", 2, t)>>,
      id |-> <<>>, days |-> 0],
     [type |-> "delete_listing", listings |-> <<>>, id |-> U2, days |-> 0],
     [type |-> "prune_older_than", listings |-> <<>>, id |-> <<>>, days |-> 1],
     [type |-> "clear_all", listings |-> <<>>, id |-> <<>>, days |-> 0]}

\* what the storage function of mutation m computes from the mapping it
\* loaded at time t: the mapping it would save, and whether it saves
Computed(map, m, t) ==
    CASE m.type = "upsert_listings" ->
            LET r == upsertListings(map, m.listings)
            IN [listings |-> r.listings, wrote |-> r.changed]
      [] m.type = "delete_listing" ->
            LET r == deleteListing(map, m.id)
            IN [listings |-> r.listings, wrote |-> r.removed]
      [] m.type = "prune_older_than" ->
            LET r == pruneListingsOlderThan(map, Whole(m.days), t)
            IN [listings |-> r.listings, wrote |-> r.removed > 0]

InitConcurrent ==
    /\ listings = BaseStore
    /\ now = 2
    /\ lastOp = NoOp
    /\ target = None
    /\ filters = None
    /\ foundComparables = <<>>
    /\ analysis = None
    /\ inflight = <<>>
    /\ page = NoPage
    /\ search = NoSearch

\* the listener takes up a message and calls its storage function, which
\* runs up to its first await
Receive ==
    /\ Len(inflight) < MaxRequests
    /\ \E m \in Mutations(now) :
        inflight' = Append(inflight,
            [msg |-> m, pc |-> IF m.type = "clear_all" THEN "remove" ELSE "load",
             toSave |-> <<>>])
    /\ UNCHANGED <<listings, now, lastOp, target, filters, foundComparables, analysis, page, search>>

\* `await loadListings()` of mutation i returns the mapping as it is now; the
\* function runs on to its `await saveListings(listings)` or to its return
Load(i) ==
    /\ inflight[i].pc = "load"
    /\ LET c == Computed(listings, inflight[i].msg, now) IN
       inflight' = [inflight EXCEPT ![i].pc = IF c.wrote THEN "save" ELSE "done",
                                    ![i].toSave = IF c.wrote THEN c.listings ELSE <<>>]
    /\ UNCHANGED <<listings, now, lastOp, target, filters, foundComparables, analysis, page, search>>

\* browser.storage.local.set({ [KEY]: listings }) of mutation i takes effect
Save(i) ==
    /\ inflight[i].pc = "save"
    /\ listings' = inflight[i].toSave
    /\ inflight' = [inflight EXCEPT ![i].pc = "done"]
    /\ UNCHANGED <<now, lastOp, target, filters, foundComparables, analysis, page, search>>

\* browser.storage.local.remove(KEY) of clearAllListings takes effect
RemoveKey(i) ==
    /\ inflight[i].pc = "remove"
    /\ listings' = clearAllListings(listings)
    /\ inflight' = [inflight EXCEPT ![i].pc = "done"]
    /\ UNCHANGED <<now, lastOp, target, filters, foundComparables, analysis, page, search>>

NextConcurrent ==
    \/ Receive
    \/ \E i \in 1..Len(inflight) : Load(i)
    \/ \E i \in 1..Len(inflight) : Save(i)
    \/ \E i \in 1..Len(inflight) : RemoveKey(i)

SpecConcurrent == InitConcurrent /\ [][NextConcurrent]_vars

\* mutation m run alone, from load to save, on the mapping map
Alone(map, m, t) ==
    IF m.type = "clear_all" THEN clearAllListings(map)
    ELSE LET c == Computed(map, m, t) IN IF c.wrote THEN c.listings ELSE map

\* the pairs of mutations the claim names: two upserts of different ids, or
\* an upsert and a delete or prune
NamedPair(a, b) ==
    /\ a.type = "upsert_listings"
    /\ \/ b.type = "upsert_listings" /\ b.listings[1].id # a.listings[1].id
       \/ b.type \in {"delete_listing", "prune_older_than"}

\* C15 (serialized mutations): once two upserts of different ids, or an
\* upsert and a delete or prune, have completed, the persisted mapping is the
\* one that running the two one after the other, in one order or the other,
\* leaves: it reflects both, no update is lost.
C15_Serialized ==
    (/\ Len(inflight) = 2
     /\ \A i \in 1..2 : inflight[i].pc = "done"
     /\ NamedPair(inflight[1].msg, inflight[2].msg) \/ NamedPair(inflight[2].msg, inflight[1].msg))
        => \E i, j \in 1..2 :
                /\ i # j
                /\ listings = Alone(Alone(BaseStore, inflight[i].msg, now),
                                    inflight[j].msg, now)

----------------------------------------------------------------------------
(* lib/storage.ts over a durable store that can fail.  The mapping holds    *)
(* listings of any age, some with a captured_at no Date.parse reads, and    *)
(* each await on browser.storage.local resolves or rejects.                 *)

MaxAge == 2         \* listings were captured on days 0 .. MaxAge; today is MaxAge

\* which storage call of an operation rejects: none, the storage.local.get of
\* loadListings, or the storage.local.set / remove
StorageFaults == {"none", "read", "write"}

\* a plausible slip: a rejected write is caught and the operation resolves
SettleSwallowing(map, r, fault) ==
    IF r.read /\ fault = "read"
    THEN [listings |-> map, rejected |-> Some("read"), read |-> TRUE, wrote |-> FALSE]
    ELSE IF r.wrote /\ fault = "write"
    THEN [listings |-> map, rejected |-> None, read |-> r.read, wrote |-> TRUE]
    ELSE [listings |-> IF r.wrote THEN r.listings ELSE map, rejected |-> None,
          read |-> r.read, wrote |-> r.wrote]

\* how a storage function settles: r tells the mapping it computes and
\* whether it calls loadListings (read) and saveListings or remove (wrote).
\* No await of storage.ts stands in a try block, so the rejection of a
\* storage call is the rejection of the function and nothing after it runs.
Settle(map, r, fault) ==
    IF r.read /\ fault = "read"
    THEN [listings |-> map, rejected |-> Some("read"), read |-> TRUE, wrote |-> FALSE]
    ELSE IF r.wrote /\ fault = "write"
    THEN [listings |-> map, rejected |-> Some("write"), read |-> r.read, wrote |-> TRUE]
    ELSE [listings |-> IF r.wrote THEN r.listings ELSE map, rejected |-> None,
          read |-> r.read, wrote |-> r.wrote]

\* the stored record of u, last captured on day c
Stored(u, c) == [Capture(u, "search", "price", 1, 0) EXCEPT !.captured_at = c]

\* the entry of u in a mapping: none, or its record
Entry(u, a) == IF a = None THEN <<>> ELSE <<Stored(u, Val(a))>>

\* the captured_at values of stored records
Ages == {None} \cup {Some(c) : c \in {Unparseable} \cup 0..MaxAge}

\* message.days: whole and half days, and what is not a finite positive number
DaysSent ==
    {Whole(d) : d \in (-1)..(MaxAge + 1)}
    \cup {Frac(1, 2), Frac(3, 2)}
    \cup {[num |-> 0, den |-> 0], [num |-> 1, den |-> 0], [num |-> -1, den |-> 0]}

InitStorage ==
    /\ \E a1, a2, a3 \in Ages : listings = Entry(U1, a1) \o Entry(U2, a2) \o Entry(U3, a3)
    /\ now = MaxAge
    /\ lastOp = NoOp
    /\ target = None
    /\ filters = None
    /\ foundComparables = <<>>
    /\ analysis = None
    /\ inflight = <<>>
    /\ page = NoPage
    /\ search = NoSearch

\* what the requester gets back and what the operation did to the store
Outcome(type, o, removed, fault, days) ==
    [type |-> type, merges |-> <<>>, removed |-> IF o.rejected = None THEN removed ELSE 0,
     wrote |-> o.wrote, read |-> o.read, rejected |-> o.rejected, fault |-> fault,
     days |-> days]

\* message.type === 'upsert_listings'
UpsertRequest ==
    \E incoming \in {<<Capture(U1, "detail", "price", 2, now)>>,
                     <<Capture(U3, "search", "bare", 1, now)>>},
       fault \in StorageFaults :
        LET r == upsertListings(listings, incoming)
            o == Settle(listings, [listings |-> r.listings, read |-> TRUE, wrote |-> r.changed],
                        fault)
        IN /\ listings' = o.listings
           /\ lastOp' = Outcome("upsert_listings", o, 0, fault, Whole(0))
           /\ UNCHANGED <<now, target, filters, foundComparables, analysis, inflight, page, search>>

\* message.type === 'delete_listing'
DeleteRequest ==
    \E id \in {U1, U2}, fault \in StorageFaults :
        LET r == deleteListing(listings, id)
            o == Settle(listings, [listings |-> r.listings, read |-> TRUE, wrote |-> r.removed],
                        fault)
        IN /\ listings' = o.listings
           /\ lastOp' = Outcome("delete_listing", o, IF r.removed THEN 1 ELSE 0, fault, Whole(0))
           /\ UNCHANGED <<now, target, filters, foundComparables, analysis, inflight, page, search>>

\* message.type === 'prune_older_than'
PruneRequest ==
    \E days \in DaysSent, fault \in StorageFaults :
        LET r == pruneListingsOlderThan(listings, days, now)
            o == Settle(listings, [listings |-> r.listings, read |-> r.read,
                                   wrote |-> r.removed > 0], fault)
        IN /\ listings' = o.listings
           /\ lastOp' = Outcome("prune_older_than", o, r.removed, fault, days)
           /\ UNCHANGED <<now, target, filters, foundComparables, analysis, inflight, page, search>>

\* message.type === 'clear_all'
ClearRequest ==
    \E fault \in StorageFaults :
        LET o == Settle(listings, [listings |-> clearAllListings(listings), read |-> FALSE,
                                   wrote |-> TRUE], fault)
        IN /\ listings' = o.listings
           /\ lastOp' = Outcome("clear_all", o, 0, fault, Whole(0))
           /\ UNCHANGED <<now, target, filters, foundComparables, analysis, inflight, page, search>>

NextStorage ==
    \/ UpsertRequest
    \/ DeleteRequest
    \/ PruneRequest
    \/ ClearRequest

SpecStorage == InitStorage /\ [][NextStorage]_vars

\* the captured_at of l parses to a time earlier than today - days
CapturedBefore(l, days) ==
    /\ l.captured_at # Unparseable
    /\ l.captured_at * days.den + days.num < now * days.den

\* C16 (pruneOlderThan): a prune that settles without failure, for a finite
\* days > 0, removes exactly the records whose captured_at parses to a time
\* earlier than now - days, leaves every other record (newer, at the
\* threshold, unparseable) as it was and in place, returns the number removed
\* and writes only if that number is positive; for days that is not a finite
\* positive number it returns 0 and neither reads nor writes the store.
C16_PruneOlderThan ==
    [][(lastOp'.type = "prune_older_than" /\ lastOp'.rejected = None) =>
        LET days == lastOp'.days IN
        IF days.den # 0 /\ days.num > 0
        THEN /\ listings' = SelectSeq(listings, LAMBDA l : ~CapturedBefore(l, days))
             /\ lastOp'.removed = Len(listings) - Len(listings')
             /\ lastOp'.read
             /\ lastOp'.wrote <=> lastOp'.removed > 0
        ELSE /\ lastOp'.removed = 0
             /\ ~lastOp'.read
             /\ ~lastOp'.wrote
             /\ listings' = listings]_vars

\* C16 witness: a prune by one day removed one record and wrote; the record
\* captured exactly at the threshold and the record with an unparseable
\* captured_at are still stored
C16_Witness ==
    /\ lastOp.type = "prune_older_than"
    /\ lastOp.rejected = None
    /\ lastOp.days = Whole(1)
    /\ lastOp.removed = 1
    /\ lastOp.wrote
    /\ Len(listings) = 2
    /\ \E i, j \in 1..2 :
        /\ listings[i].captured_at = Unparseable
        /\ listings[j].captured_at = now - 1

\* the storage call that fault names was issued by the last operation
FaultHit ==
    \/ lastOp.fault = "read" /\ lastOp.read
    \/ lastOp.fault = "write" /\ lastOp.wrote

\* C17 (persistence failure): an upsert, delete, prune or clear whose read or
\* write of the durable store fails rejects with that failure, it does not
\* resolve and the failed call is not issued again, and an operation that
\* rejects leaves the persisted mapping exactly as it was before it started.
C17_PersistenceFailure ==
    /\ [](lastOp.type \in {"upsert_listings", "delete_listing", "prune_older_than", "clear_all"}
            => /\ FaultHit => lastOp.rejected = Some(lastOp.fault)
               /\ ~FaultHit => lastOp.rejected = None)
    /\ [][lastOp'.rejected # None => listings' = listings]_vars

\* C17 witness: an upsert that would have changed a stored record had its
\* write rejected, and the record is stored as before
C17_Witness ==
    /\ lastOp.type = "upsert_listings"
    /\ lastOp.fault = "write"
    /\ lastOp.read /\ lastOp.wrote
    /\ lastOp.rejected = Some("write")
    /\ Lookup(listings, U1) = Some(Stored(U1, 0))

----------------------------------------------------------------------------
(* entrypoints/import/main.ts: the import page, and the background's answer *)
(* to its import_listings request.  A parsed JSON value is a record of its  *)
(* shape ("array", "object" or "scalar": null, number, string, boolean),    *)
(* its truthiness and its elements (Object.values of an object).            *)

MaxImports == 2     \* the import requests one run sends

\* an element of a payload: a listing-shaped object whose id member is a
\* string, a number or missing, or something that is no object at all
Element(shape, truthy, idType, listing) ==
    [shape |-> shape, truthy |-> truthy, idType |-> idType, listing |-> listing]

\* an exported listing
Exported(u) == Capture(u, "detail", "full", 1, 0)

Good(u) == Element("object", TRUE, "string", Exported(u))
NoId(u) == Element("object", TRUE, "undefined", Exported(u))
NumberId(u) == Element("object", TRUE, "number", Exported(u))
NullElement == Element("scalar", FALSE, "undefined", Exported(<<>>))

\* a member `listings` or `data` of the payload object, or the payload's own
\* value; absent members are None
Json(shape, truthy, items) == [shape |-> shape, truthy |-> truthy, items |-> items]

\* a parsed payload: its own value, and its members listings and data
Payload(value, listingsMember, dataMember) ==
    [shape |-> value.shape, truthy |-> value.truthy, items |-> value.items,
     listings |-> listingsMember, data |-> dataMember]

\* a chosen file: its name, whether JSON.parse reads its text, and the value
File(name, parses, payload) == [name |-> name, parses |-> parses, payload |-> payload]

\* the files the user can choose
Files ==
    {File("broken.json", FALSE, Payload(Json("scalar", FALSE, <<>>), None, None)),
     File("array.json", TRUE,
          Payload(Json("array", TRUE, <<Good(U1), Good(U2)>>), None, None)),
     File("listings.json", TRUE,
          Payload(Json("object", TRUE, <<>>), Some(Json("array", TRUE, <<Good(U1)>>)), None)),
     File("data.json", TRUE,
          Payload(Json("object", TRUE, <<>>), None, Some(Json("array", TRUE, <<Good(U2)>>)))),
     File("listings-map.json", TRUE,
          Payload(Json("object", TRUE, <<>>),
                  Some(Json("object", TRUE, <<Good(U1), Good(U2)>>)), None)),
     File("map.json", TRUE,
          Payload(Json("object", TRUE, <<Good(U1), NullElement>>), None, None)),
     File("empty.json", TRUE, Payload(Json("array", TRUE, <<>>), None, None)),
     File("number.json", TRUE, Payload(Json("scalar", TRUE, <<>>), None, None)),
     File("no-id.json", TRUE, Payload(Json("array", TRUE, <<NoId(U3)>>), None, None)),
     File("mixed.json", TRUE,
          Payload(Json("array", TRUE, <<Good(U3), NoId(U4)>>), None, None)),
     File("mixed-data.json", TRUE,
          Payload(Json("object", TRUE, <<>>), None,
                  Some(Json("array", TRUE, <<NumberId(U4), Good(U3)>>))))}

\* Array.isArray(v) for a member that may be absent
IsArrayMember(m) == m # None /\ Val(m).shape = "array"
\* `v && typeof v === 'object'` for a member that may be absent
IsObjectMember(m) == m # None /\ Val(m).truthy /\ Val(m).shape \in {"object", "array"}

\* normalizeImportPayload(payload)
normalizeImportPayload(payload) ==
    IF payload.shape = "array" THEN payload.items
    ELSE IF ~payload.truthy \/ payload.shape # "object" THEN <<>>
    ELSE IF IsArrayMember(payload.listings) THEN Val(payload.listings).items
    ELSE IF IsArrayMember(payload.data) THEN Val(payload.data).items
    ELSE IF IsObjectMember(payload.listings) THEN Val(payload.listings).items
    ELSE IF IsObjectMember(payload.data) THEN Val(payload.data).items
    ELSE SelectSeq(payload.items, LAMBDA item : item.truthy /\ item.shape \in {"object", "array"})

\* .filter((item) => item && typeof item.id === 'string')
HasStringId(item) == item.truthy /\ item.idType = "string"

\* the listings of a sequence of elements
ListingsOf(items) == [i \in 1..Len(items) |-> items[i].listing]

\* handleFileChange(event) with a file chosen
HandleFileChange ==
    \E file \in Files :
        LET valid == IF file.parses
                     THEN SelectSeq(normalizeImportPayload(file.payload), HasStringId)
                     ELSE <<>>
        IN /\ page' = [page EXCEPT
                  !.fileName = file.name,
                  !.pendingImportListings = ListingsOf(valid),
                  !.status =
                      IF ~file.parses THEN Status("Datei ist kein gueltiges JSON.", 0)
                      ELSE IF valid = <<>>
                      THEN Status("Keine gueltigen Datensaetze mit String-ID gefunden.", 0)
                      ELSE Status("Datensaetze bereit fuers Importieren.", Len(valid))]
           /\ UNCHANGED <<listings, now, lastOp, target, filters, foundComparables, analysis,
                          inflight, search>>

\* runImport() up to its await: the request is sent
RunImport ==
    \E mode \in {"merge", "replace"} :
        /\ ~(page.pendingImportListings = <<>> \/ page.isImporting)
        /\ Len(page.sent) < MaxImports
        /\ LET message == [type |-> "import_listings",
                           listings |-> page.pendingImportListings, mode |-> mode]
           IN /\ page' = [page EXCEPT !.isImporting = TRUE,
                                      !.status = Status("Import laeuft...", 0),
                                      !.sent = Append(page.sent, message)]
              /\ inflight' = Append(inflight, [msg |-> message, pc |-> "sent", toSave |-> <<>>])
        /\ UNCHANGED <<listings, now, lastOp, target, filters, foundComparables, analysis, search>>

\* the listener on an import_listings message: no branch tests for this
\* type, so it returns Promise.resolve({ ok: false }) and the store is not
\* touched; runImport then shows the failure and ends
OnImportListings ==
    /\ inflight # <<>>
    /\ inflight[1].pc = "sent"
    /\ LET message == inflight[1].msg
           response == [ok |-> FALSE]
       IN /\ lastOp' = [type |-> "import_listings", merges |-> <<>>, removed |-> 0,
                        wrote |-> FALSE, listings |-> message.listings,
                        mode |-> message.mode, ok |-> response.ok]
          /\ page' = [page EXCEPT
                 !.isImporting = FALSE,
                 !.status = IF ~response.ok
                            THEN Status("Import fehlgeschlagen. Bitte erneut versuchen.", 0)
                            ELSE IF message.mode = "replace"
                            THEN Status("Import abgeschlossen: Anzeigen ersetzt.",
                                        Len(message.listings))
                            ELSE Status("Import abgeschlossen: Anzeigen zusammengefuehrt.",
                                        Len(message.listings))]
    /\ inflight' = Tail(inflight)
    /\ UNCHANGED <<listings, now, target, filters, foundComparables, analysis, search>>

InitImport ==
    /\ listings = BaseStore
    /\ now = 2
    /\ lastOp = NoOp
    /\ target = None
    /\ filters = None
    /\ foundComparables = <<>>
    /\ analysis = None
    /\ inflight = <<>>
    /\ page = NoPage
    /\ search = NoSearch

NextImport ==
    \/ HandleFileChange
    \/ RunImport
    \/ OnImportListings

SpecImport == InitImport /\ [][NextImport]_vars

\* C18 (import in mode "replace"): once the background has answered an
\* import_listings request with listings L and mode "replace", the persisted
\* mapping is exactly { l.id -> l : l in L }, no prior entry is left, and the
\* answer has ok = true.
C18_ImportReplace ==
    (lastOp.type = "import_listings" /\ lastOp.mode = "replace") =>
        /\ lastOp.ok
        /\ Len(listings) = Len(lastOp.listings)
        /\ \A l \in SeqRange(lastOp.listings) : Lookup(listings, l.id) = Some(l)

\* the file of that name is not valid JSON, or an element of its payload has
\* a missing or non-string id
Malformed(file) ==
    \/ ~file.parses
    \/ \E item \in SeqRange(normalizeImportPayload(file.payload)) : ~HasStringId(item)

\* C19 (malformed import input): while the chosen file is not valid JSON or
\* holds an element without a string id, nothing is pending and the status is
\* one of the two fixed messages; no import_listings request carries a listing
\* of such a file; and no request is sent with an empty list.
C19_MalformedImportRejected ==
    /\ \A file \in Files :
        (file.name = page.fileName /\ Malformed(file)) =>
            /\ page.pendingImportListings = <<>>
            /\ page.status \in {Status("Datei ist kein gueltiges JSON.", 0),
                                Status("Keine gueltigen Datensaetze mit String-ID gefunden.", 0)}
    /\ \A m \in SeqRange(page.sent) :
        /\ m.listings # <<>>
        /\ \A file \in Files :
             Malformed(file) =>
                \A item \in SeqRange(normalizeImportPayload(file.payload)) :
                    item.listing \notin SeqRange(m.listings)

----------------------------------------------------------------------------
(* Captures of one listing by several pages.  Each capture stamps its        *)
(* listing with nowIso() and sends it; the listener starts upsertListings    *)
(* for each message, and every await of it (loadListings, saveListings)      *)
(* resolves at some later time, in any order among the requests.             *)

\* capture() on a page of U1: the listing is built at the time `now` and the
\* upsert_listings message is taken up by the listener
ReceiveCapture ==
    /\ Len(inflight) < MaxRequests
    /\ \E src \in {"detail", "search"}, s \in Shapes, v \in Variants :
        inflight' = Append(inflight,
            [msg |-> [type |-> "upsert_listings",
                      listings |-> <<Capture(U1, src, s, v, now)>>,
                      id |-> <<>>, days |-> 0],
             pc |-> "load", toSave |-> <<>>])
    /\ UNCHANGED <<listings, now, lastOp, target, filters, foundComparables, analysis, page, search>>

InitReorder ==
    /\ listings = <<>>
    /\ now = 0
    /\ lastOp = NoOp
    /\ target = None
    /\ filters = None
    /\ foundComparables = <<>>
    /\ analysis = None
    /\ inflight = <<>>
    /\ page = NoPage
    /\ search = NoSearch

NextReorder ==
    \/ ReceiveCapture
    \/ \E i \in 1..Len(inflight) : Load(i)
    \/ \E i \in 1..Len(inflight) : Save(i)
    \/ Tick

SpecReorder == InitReorder /\ [][NextReorder]_vars

\* C21 (price_history is chronological): every stored record's price_history
\* is in non-decreasing captured_at order, and the record's captured_at is
\* not older than any observation of that listing whose upsert has completed.
C21_Chronological ==
    \A i \in 1..Len(listings) :
        LET history == listings[i].price_history IN
        /\ \A k \in 1..(Len(history) - 1) :
              history[k].captured_at <= history[k + 1].captured_at
        /\ \A j \in 1..Len(inflight) :
              (inflight[j].pc = "done" /\ inflight[j].msg.listings[1].id = listings[i].id)
                  => inflight[j].msg.listings[1].captured_at <= listings[i].captured_at

----------------------------------------------------------------------------
(* One car seen under several URLs.  The pages of a car differ in their     *)
(* query, their fragment or the words before the numeric identifier; each   *)
(* capture stores the listing under its canonical URL, and a page of        *)
(* another car asks for its analysis.                                       *)

\* the URLs under which the car 123456 and the car 7654321 are browsed
BrowsedUrls == {U1, UQ, UH, U3, U5, U6}

\* the listing a capture of the page u builds: id and url are the canonical
\* URL; the page shows the price p
Browsed(u, p) ==
    [Car(canonicalizeUrl(u), canonicalizeUrl(u)) EXCEPT
        !.price_eur = Some(p),
        !.price_history = <<[price_eur |-> p, captured_at |-> 0]>>]

\* capture() on a page of one of the cars, and the listener's upsert_listings
CaptureBrowsed ==
    /\ \E u \in BrowsedUrls :
        LET r == upsertListings(listings, <<Browsed(u, PagePrice(1))>>) IN
        /\ listings' = IF r.changed THEN r.listings ELSE listings
        /\ lastOp' = [type |-> "upsert_listings", merges |-> r.merges, removed |-> 0,
                      wrote |-> r.changed]
    /\ target' = None
    /\ foundComparables' = <<>>
    /\ analysis' = None
    /\ UNCHANGED <<now, filters, inflight, page, search>>

\* the page of another car of the same class asks for its analysis
AnalyzeBrowsed ==
    /\ \E u \in {U2, UC} :
        /\ target' = Some(Car(u, u))
        /\ foundComparables' = findComparables(Car(u, u), listings, filters)
        /\ analysis' = Some(analyzeListing(Car(u, u), listings, filters))
    /\ UNCHANGED <<listings, now, lastOp, filters, inflight, page, search>>

InitBrowsed ==
    /\ listings = <<>>
    /\ now = 0
    /\ lastOp = NoOp
    /\ target = None
    /\ filters = None
    /\ foundComparables = <<>>
    /\ analysis = None
    /\ inflight = <<>>
    /\ page = NoPage
    /\ search = NoSearch

NextBrowsed ==
    \/ CaptureBrowsed
    \/ AnalyzeBrowsed

SpecBrowsed == InitBrowsed /\ [][NextBrowsed]_vars

\* C27 (no double counting of one car): no two listings returned by
\* findComparables have the same numeric identifier or the same
\* canonicalized URL, so that comparables_count counts every car once.
C27_NoDoubleCounting ==
    Analyzed =>
        /\ \A i, j \in 1..Len(foundComparables) :
              i < j =>
                 /\ ~SameNumericId(foundComparables[i], foundComparables[j])
                 /\ canonicalizeUrl(foundComparables[i].url)
                        # canonicalizeUrl(foundComparables[j].url)
        /\ Val(analysis).comparables_count = Len(foundComparables)

----------------------------------------------------------------------------
(* entrypoints/content.ts: the analyses of a search page.  getSearchAnalyses *)
(* answers from the cache, from the request in flight or by a new            *)
(* analyze_listings request; the `then` and `finally` callbacks of a request *)
(* run when its response arrives.  A promise is the number of its request;   *)
(* the analyses a response carries are named by that number too.  One tick   *)
(* of the clock is longer than SEARCH_ANALYSIS_TTL_MS.                       *)

MaxSearchRequests == 3  \* the analyze_listings requests one run sends
MaxResets == 2          \* the resets of one run

\* SEARCH_ANALYSIS_TTL_MS, in ticks of the clock
SEARCH_ANALYSIS_TTL == 0

\* the keys buildSearchAnalysisKey yields for two sets of listings or filters
SearchKeys == {"url|000|a,b", "url|100|a,b"}

\* isSearchAnalysisCacheValid(cache, key) at time t
isSearchAnalysisCacheValid(cache, key, t) ==
    IF cache = None THEN FALSE
    ELSE IF Val(cache).key # key THEN FALSE
    ELSE t - Val(cache).timestamp <= SEARCH_ANALYSIS_TTL

\* a plausible slip: the generation is not looked at when the response arrives
IsStaleNever(generation, current) == FALSE

\* searchAnalysisGeneration !== generation in the `then` callback
IsStale(generation, current) == current # generation

\* getSearchAnalyses(key, listings, filters)
GetSearchAnalyses ==
    /\ \E key \in SearchKeys :
        IF isSearchAnalysisCacheValid(search.cache, key, now)
        THEN search' = [search EXCEPT !.returned = Some([from |-> "cache", promise |-> 0])]
        ELSE IF search.inFlight # None /\ Val(search.inFlight).key = key
        THEN search' = [search EXCEPT
                 !.returned = Some([from |-> "inFlight",
                                    promise |-> Val(search.inFlight).promise])]
        ELSE /\ Len(search.requests) < MaxSearchRequests
             /\ LET request == Len(search.requests) + 1 IN
                search' = [search EXCEPT
                    !.requests = Append(search.requests,
                        [key |-> key, generation |-> search.generation, settledIn |-> None,
                         value |-> None]),
                    !.inFlight = Some([key |-> key, promise |-> request]),
                    !.returned = Some([from |-> "request", promise |-> request])]
    /\ UNCHANGED <<listings, now, lastOp, target, filters, foundComparables, analysis, inflight,
                   page>>

\* the response of request i arrives, with analyses or without: the `then`
\* callback, then the `finally` callback
SearchResponse(i) ==
    /\ search.requests[i].settledIn = None
    /\ \E hasAnalyses \in BOOLEAN :
        LET request == search.requests[i]
            value == IF IsStale(request.generation, search.generation) THEN None
                     ELSE IF ~hasAnalyses THEN None
                     ELSE Some(i)
        IN search' = [search EXCEPT
               !.cache = IF value = None THEN search.cache
                         ELSE Some([key |-> request.key, timestamp |-> now,
                                    analyses |-> Val(value)]),
               !.inFlight = IF search.inFlight # None /\ Val(search.inFlight).key = request.key
                            THEN None ELSE search.inFlight,
               !.requests[i].settledIn = Some(search.generation),
               !.requests[i].value = value]
    /\ UNCHANGED <<listings, now, lastOp, target, filters, foundComparables, analysis, inflight,
                   page>>

\* resetSearchAnalysisCache(), on a filter change or a route change
ResetSearchAnalysisCache ==
    /\ search.generation < MaxResets
    /\ search' = [search EXCEPT !.generation = search.generation + 1,
                                !.cache = None,
                                !.inFlight = None]
    /\ UNCHANGED <<listings, now, lastOp, target, filters, foundComparables, analysis, inflight,
                   page>>

InitSearch ==
    /\ listings = <<>>
    /\ now = 0
    /\ lastOp = NoOp
    /\ target = None
    /\ filters = None
    /\ foundComparables = <<>>
    /\ analysis = None
    /\ inflight = <<>>
    /\ page = NoPage
    /\ search = NoSearch

NextSearch ==
    \/ GetSearchAnalyses
    \/ \E i \in 1..Len(search.requests) : SearchResponse(i)
    \/ ResetSearchAnalysisCache
    \/ Tick

SpecSearch == InitSearch /\ [][NextSearch]_vars

\* request i was sent and its response has not arrived
Outstanding(i) == search.requests[i].settledIn = None

\* C28 (stale analysis responses are discarded): a request whose response
\* arrives in a later generation than the one it was issued in yields null,
\* and the cache only ever holds analyses requested in the current generation.
C28_StaleDiscarded ==
    /\ \A i \in 1..Len(search.requests) :
          LET request == search.requests[i] IN
          (request.settledIn # None /\ Val(request.settledIn) # request.generation)
              => request.value = None
    /\ search.cache # None =>
          search.requests[Val(search.cache).analyses].generation = search.generation

\* C28 witness: the response of a request issued before a reset arrived after
\* a newer request had filled the cache; it yielded null and the cache still
\* holds the newer analyses
C28_Witness ==
    \E i, j \in 1..Len(search.requests) :
        /\ i < j
        /\ search.requests[i].generation < search.requests[j].generation
        /\ search.requests[i].settledIn = Some(search.generation)
        /\ search.requests[i].value = None
        /\ search.requests[j].generation = search.generation
        /\ search.cache # None
        /\ Val(search.cache).analyses = j
        /\ Val(search.cache).key = search.requests[i].key

\* C29 (in-flight de-duplication): within one cache generation at most one
\* analyze_listings request per key is outstanding, and the response of a
\* request issued before a reset never clears the in-flight entry of a newer
\* request, even when both have the same key.
C29_InFlightDeduplication ==
    /\ [](\A i, j \in 1..Len(search.requests) :
            (i < j /\ Outstanding(i) /\ Outstanding(j)
             /\ search.requests[i].generation = search.requests[j].generation)
                => search.requests[i].key # search.requests[j].key)
    /\ [][\A i \in 1..Len(search.requests) :
            (/\ Outstanding(i)
             /\ search'.requests[i].settledIn # None
             /\ search.requests[i].generation # search.generation
             /\ search.inFlight # None
             /\ Val(search.inFlight).promise # i)
                => search'.inFlight = search.inFlight]_vars

----------------------------------------------------------------------------
(* entrypoints/background.ts: get_analysis next to the store mutations.  The *)
(* listener calls getListing(message.id) and loadListings() side by side;    *)
(* each is a storage.local.get of its own, which returns the mapping as it   *)
(* is at some time after the call, and the `then` callback runs once both    *)
(* have returned.                                                            *)

\* the listener takes up a get_analysis message: both reads are begun
ReceiveGetAnalysis ==
    /\ Len(inflight) < MaxRequests
    /\ \A i \in 1..Len(inflight) : inflight[i].msg.type # "get_analysis"
    /\ \E id \in CaptureUrls :
        inflight' = Append(inflight,
            [msg |-> [type |-> "get_analysis", listings |-> <<>>, id |-> id, days |-> 0],
             pc |-> "reads", toSave |-> <<>>, listing |-> None, listings |-> None])
    /\ UNCHANGED <<listings, now, lastOp, target, filters, foundComparables, analysis, page,
                   search>>

\* Promise.all(...).then(([listing, listings]) => ...) of the get_analysis
\* request i, once both reads have returned
Respond(i, listing, map) ==
    /\ target' = listing
    /\ foundComparables' = IF listing = None THEN <<>>
                           ELSE findComparables(Val(listing), map, None)
    /\ analysis' = IF listing = None THEN None
                   ELSE Some(analyzeListing(Val(listing), map, None))
    /\ lastOp' = [type |-> "get_analysis", merges |-> <<>>, removed |-> 0, wrote |-> FALSE,
                  id |-> inflight[i].msg.id, listing |-> listing, listings |-> map]

\* the storage.local.get of getListing(message.id) returns
ReadListing(i) ==
    /\ inflight[i].pc = "reads"
    /\ inflight[i].listing = None
    /\ LET listing == getListing(listings, inflight[i].msg.id) IN
       IF inflight[i].listings = None
       THEN /\ inflight' = [inflight EXCEPT ![i].listing = Some(listing)]
            /\ UNCHANGED <<lastOp, target, foundComparables, analysis>>
       ELSE /\ inflight' = [inflight EXCEPT ![i].listing = Some(listing), ![i].pc = "done"]
            /\ Respond(i, listing, Val(inflight[i].listings))
    /\ UNCHANGED <<listings, now, filters, page, search>>

\* the storage.local.get of loadListings() returns
ReadListings(i) ==
    /\ inflight[i].pc = "reads"
    /\ inflight[i].listings = None
    /\ IF inflight[i].listing = None
       THEN /\ inflight' = [inflight EXCEPT ![i].listings = Some(listings)]
            /\ UNCHANGED <<lastOp, target, foundComparables, analysis>>
       ELSE /\ inflight' = [inflight EXCEPT ![i].listings = Some(listings), ![i].pc = "done"]
            /\ Respond(i, Val(inflight[i].listing), listings)
    /\ UNCHANGED <<listings, now, filters, page, search>>

NextSnapshot ==
    \/ Receive
    \/ ReceiveGetAnalysis
    \/ \E i \in 1..Len(inflight) : Load(i)
    \/ \E i \in 1..Len(inflight) : Save(i)
    \/ \E i \in 1..Len(inflight) : RemoveKey(i)
    \/ \E i \in 1..Len(inflight) : ReadListing(i)
    \/ \E i \in 1..Len(inflight) : ReadListings(i)

SpecSnapshot == InitConcurrent /\ [][NextSnapshot]_vars

\* C30 (snapshot consistency of get_analysis): the listing a get_analysis
\* request returns is the record stored under the requested id in the mapping
\* that was passed to analyzeListing, whatever mutations run next to it.
C30_SnapshotConsistency ==
    (lastOp.type = "get_analysis" /\ lastOp.listing # None) =>
        Lookup(lastOp.listings, lastOp.id) = lastOp.listing

====
